---- MODULE Spec2Model ----
(***************************************************************************)
(* The signaling server of src/server/index.js: the in-memory session      *)
(* store, the Socket.IO rooms it broadcasts to, and one action per         *)
(* socket event handler.  Every handler runs to completion on Node's       *)
(* single-threaded event loop, so each handler is one atomic action.       *)
(***************************************************************************)
EXTENDS Integers, Sequences, FiniteSets, TLC

\* ------------------------------------------------------------------ bounds
\* At most MaxJoins join events are handled in one behaviour.
MaxJoins == 3

\* The calls of joinReceiveSession a Sender page makes.
MaxCalls == 2

\* ------------------------------------------------------------------ inputs
\* socket.id of the connections the transport layer can hand to the server.
Conns == {"c1", "c2", "c3"}

\* Session identifiers clients put in a join (Sender.jsx generates six
\* lower-case base-36 characters; a URL can carry any letter case).
SessionIds == {"ab12cd", "AB12CD"}

\* Room names a relay, transfer or verify-session event may carry: the session
\* identifiers and, since the field is client-chosen, the id of a socket.
RoomNames == SessionIds \cup Conns
Targets == SessionIds \cup {"c2"}

\* Opaque negotiation payloads (SDP, ICE candidate).
Payloads == {"p1", "p2"}

\* Values of transfer-progress.
Progresses == {50}

\* ------------------------------------------------------- JavaScript values
JsUndefined == [type |-> "undefined"]
JsBool(b) == [type |-> "boolean", value |-> b]
JsTrue == JsBool(TRUE)
JsFalse == JsBool(FALSE)
JsString(s) == [type |-> "string", value |-> s]

\* ToBoolean: undefined and the empty string are falsy (the only falsy values
\* the inputs below contain), everything else is truthy.
Truthy(v) == /\ v # JsUndefined
             /\ v # JsFalse
             /\ v # JsString("")

\* a || b
JsOr(a, b) == IF Truthy(a) THEN a ELSE b

\* a && b
JsAnd(a, b) == IF Truthy(a) THEN b ELSE a

\* The fields of the device object the join handler builds.
InfoFields == {"type", "deviceType", "deviceName", "deviceIcon", "osName",
               "userAgent", "screenResolution", "language", "timezone",
               "timestamp"}

\* deviceInfo as a client can send it: absent, complete, or with fields missing.
\* A present deviceInfo is a function from the fields it has to their values.
NoInfo == [defined |-> FALSE, fields |-> <<>>]
SenderInfo ==
  [defined |-> TRUE,
   fields |-> [type |-> "sender", deviceType |-> "desktop",
               deviceName |-> "Desktop Computer", deviceIcon |-> "desktop-icon",
               osName |-> "Linux", userAgent |-> "Mozilla/5.0",
               screenResolution |-> "1920x1080", language |-> "en-US",
               timezone |-> "UTC", timestamp |-> "2024-01-01T00:00:00.000Z"]]
DeviceInfos == {NoInfo, SenderInfo}

\* A deviceInfo that has the one field f and lacks every other field.
OnlyField(f) == [defined |-> TRUE, fields |-> [g \in {f} |-> SenderInfo.fields[g]]]

\* The deviceInfo values of the join-defaults specification: absent, complete,
\* and, for each field, present with that field alone.
PartialInfos == DeviceInfos \cup {OnlyField(f) : f \in InfoFields}

\* new Date().toISOString() at the time the join is handled.
Clock == {"now"}

\* deviceInfo?.f
OptField(deviceInfo, f) ==
  IF deviceInfo.defined /\ f \in DOMAIN deviceInfo.fields
  THEN JsString(deviceInfo.fields[f])
  ELSE JsUndefined

\* Mutant of MakeDevice: the client's deviceInfo is never read.
MakeDeviceDefaults(id, deviceInfo, now) ==
  [id |-> id, type |-> "unknown", deviceType |-> "unknown",
   deviceName |-> "Unknown Device", deviceIcon |-> "computer-icon",
   osName |-> "Unknown OS", userAgent |-> "unknown", screenResolution |-> "unknown",
   language |-> "unknown", timezone |-> "unknown", timestamp |-> now]

\* Mutant of MakeDevice: the device object without its || defaults, a missing
\* field left undefined.
MakeDeviceNoDefaults(id, deviceInfo, now) ==
  [f \in InfoFields \cup {"id"} |->
     IF f = "id" THEN id
     ELSE IF Truthy(OptField(deviceInfo, f)) THEN OptField(deviceInfo, f).value
     ELSE "undefined"]

\* The device object of the join handler ("computer-icon" stands for the emoji
\* the source uses as the default icon).
MakeDevice(id, deviceInfo, now) ==
  [id |-> id,
   type |-> JsOr(OptField(deviceInfo, "type"), JsString("unknown")).value,
   deviceType |-> JsOr(OptField(deviceInfo, "deviceType"), JsString("unknown")).value,
   deviceName |-> JsOr(OptField(deviceInfo, "deviceName"), JsString("Unknown Device")).value,
   deviceIcon |-> JsOr(OptField(deviceInfo, "deviceIcon"), JsString("computer-icon")).value,
   osName |-> JsOr(OptField(deviceInfo, "osName"), JsString("Unknown OS")).value,
   userAgent |-> JsOr(OptField(deviceInfo, "userAgent"), JsString("unknown")).value,
   screenResolution |-> JsOr(OptField(deviceInfo, "screenResolution"), JsString("unknown")).value,
   language |-> JsOr(OptField(deviceInfo, "language"), JsString("unknown")).value,
   timezone |-> JsOr(OptField(deviceInfo, "timezone"), JsString("unknown")).value,
   timestamp |-> JsOr(OptField(deviceInfo, "timestamp"), JsString(now)).value]

\* ------------------------------------------------------------------- state
VARIABLES
  sockets,    \* socket.id -> "idle" (not yet connected), "connected", "disconnected"
  sessions,   \* the store: the own properties of the object `sessions`, in
              \* insertion order (the order for...in visits them), each
              \* [id |-> key, devices |-> the devices array]
  rooms,      \* the Socket.IO adapter: room name -> set of socket ids in it
  last,       \* the event the server handled last
  emitted,    \* the emit calls of that handler, in order: [to, ev, data]
  nJoins,     \* number of join events handled so far
  emptied,    \* history: the session ids whose last device's disconnect was
              \* handled, with no join of that id handled since
  step,       \* history: how far the behaviour has followed the scenario
              \* "X joins, Y joins, X disconnects, Y disconnects" (-1: it left it)
  applied,    \* number of membership mutations (joins, disconnects) applied
  wire,       \* socket.id -> the membership notifications emitted to the socket
              \* and not yet handled by its client, oldest first
  seen,       \* history: socket.id -> the membership notifications its client
              \* has handled, oldest first
  sender,     \* the sending page's transfer: the closure of dc.onopen and the
              \* React state startSending and sendChunk write (Sender.jsx)
  dc,         \* the data channel from sender to receiver
  receiver,   \* the receiving page's transfer: the locals of setupConnection
              \* and the React state dc.onmessage writes (Receiver.jsx)
  handled,    \* how many of the events the sender emitted on its socket the
              \* receiving page has handled: the server relays them to it in
              \* the order they were emitted
  calls,      \* the calls of verifySession a page made, oldest first: the
              \* closure of each (its listener, its timer, its flag) and,
              \* as history, the arguments its callback was invoked with
  attempt,    \* the page that verifies: which component it is, and for the
              \* Receiver the closure of its useEffect (isConnecting, the
              \* retry timer) and its connectionState
  requests,   \* the verify-session events on their way to the server
  replies     \* the session-verified events on their way to the page

\* The server's own state, and what the observation of its notifications adds.
svars == <<sockets, sessions, rooms, last, emitted, nJoins, emptied, step>>
ovars == <<applied, wire, seen>>
tvars == <<sender, dc, receiver, handled>>
cvars == <<calls, attempt, requests, replies>>
vars == <<svars, ovars, tvars, cvars>>

\* ------------------------------------------------------- store operations
\* Index of the property `session` of the store, 0 when it has none.
KeyIndex(store, session) ==
  IF \E i \in 1..Len(store) : store[i].id = session
  THEN CHOOSE i \in 1..Len(store) : store[i].id = session
  ELSE 0

\* sessions[session] is defined.
HasSession(store, session) == KeyIndex(store, session) > 0

\* sessions[session].devices
DevicesOf(store, session) ==
  IF HasSession(store, session) THEN store[KeyIndex(store, session)].devices ELSE <<>>

\* Mutant of FindIndex: a search that looks at the first device alone.
FindIndexAtHead(devices, id) ==
  IF Len(devices) >= 1 /\ devices[1].id = id THEN 1 ELSE 0

\* Mutant of FindIndex: the join handler without its duplicate check.
FindIndexNever(devices, id) == 0

\* devices.findIndex(device => device.id === id), 1-based; 0 for JavaScript's -1.
FindIndex(devices, id) ==
  IF \E i \in 1..Len(devices) : devices[i].id = id
  THEN CHOOSE i \in 1..Len(devices) :
         /\ devices[i].id = id
         /\ \A j \in 1..(i - 1) : devices[j].id # id
  ELSE 0

\* devices.filter(device => device.id !== id)
FilterOut(devices, id) == SelectSeq(devices, LAMBDA d : d.id # id)

\* The ids of the devices in a devices array.
IdsOf(devices) == {devices[i].id : i \in 1..Len(devices)}

\* String.prototype.toLowerCase on the identifiers of the model.
ToLowerCase(s) == IF s = "AB12CD" THEN "ab12cd" ELSE s

\* One emit call: the sockets it reaches, the event name and its argument.
Emit(to, ev, data) == [to |-> to, ev |-> ev, data |-> data]

\* Mutant of SocketTo: io.to(room) in its place, which echoes to the sender.
SocketToAll(rms, id, room) == rms[room]

\* socket.to(room): the sockets in the room, except the emitting socket.
SocketTo(rms, id, room) == rms[room] \ {id}

\* io.to(room): the sockets in the room.
IoTo(rms, room) == rms[room]

\* ---------------------------------------------------- the scenario of C6
\* The devices and the session of the scenario.
X == "c1"
Y == "c2"
ScenarioSession == "ab12cd"

\* The scenario's position after a join and after a disconnect: it advances
\* when the event is the scenario's next one and is left for good otherwise.
\* Connections and the events that change no membership do not move it.
StepAfterJoin(id, session) ==
  IF step = 0 /\ id = X /\ session = ScenarioSession THEN 1
  ELSE IF step = 1 /\ id = Y /\ session = ScenarioSession THEN 2
  ELSE -1

StepAfterDisconnect(id) ==
  IF step = 2 /\ id = X THEN 3
  ELSE IF step = 3 /\ id = Y THEN 4
  ELSE -1

\* The server has started: no socket, no session.
Listening ==
  /\ sockets = [c \in Conns |-> "idle"]
  /\ sessions = <<>>
  /\ rooms = [r \in RoomNames |-> {}]
  /\ last = [ev |-> "listen", id |-> "", session |-> "", arg |-> JsUndefined]
  /\ emitted = <<>>
  /\ nJoins = 0
  /\ emptied = {}
  /\ step = 0
  /\ applied = 0
  /\ wire = [c \in Conns |-> <<>>]
  /\ seen = [c \in Conns |-> <<>>]

\* No page has started a transfer.
NoTransfer ==
  /\ sender = [pc |-> "idle"]
  /\ dc = [readyState |-> "connecting"]
  /\ receiver = [connectionState |-> "connecting"]
  /\ handled = 0

\* No page has called verifySession.
NoPage ==
  /\ calls = <<>>
  /\ attempt = [page |-> "none"]
  /\ requests = <<>>
  /\ replies = <<>>

Init == Listening /\ NoTransfer /\ NoPage

\* io.on('connection'): the socket is live and in the room named by its own id.
Connection(id) ==
  /\ sockets[id] = "idle"
  /\ sockets' = [sockets EXCEPT ![id] = "connected"]
  /\ rooms' = [rooms EXCEPT ![id] = @ \cup {id}]
  /\ last' = [ev |-> "connection", id |-> id, session |-> "", arg |-> JsUndefined]
  /\ emitted' = <<>>
  /\ UNCHANGED <<sessions, nJoins, emptied, step>>

\* Mutant of SessionInfo: the count taken before the joining device was added.
SessionInfoStaleCount(id, devices) ==
  Emit({id}, "session-info", [devices |-> devices, totalDevices |-> Len(devices) - 1])

\* socket.emit('session-info', ...): the devices array and its length, to the
\* joining socket.
SessionInfo(id, devices) ==
  Emit({id}, "session-info", [devices |-> devices, totalDevices |-> Len(devices)])

\* Mutant of Join: the session-info reply emitted first, and device-joined
\* after it.
JoinInfoFirst(id, session, deviceInfo, now) ==
  /\ sockets[id] = "connected"
  /\ nJoins < MaxJoins
  /\ LET joined == [rooms EXCEPT ![session] = @ \cup {id}]
         store == IF HasSession(sessions, session)
                  THEN sessions
                  ELSE Append(sessions, [id |-> session, devices |-> <<>>])
         k == KeyIndex(store, session)
         existingDeviceIndex == FindIndex(store[k].devices, id)
         device == MakeDevice(id, deviceInfo, now)
         devices == IF existingDeviceIndex >= 1
                    THEN [store[k].devices EXCEPT ![existingDeviceIndex] = device]
                    ELSE Append(store[k].devices, device)
         deviceJoined == IF existingDeviceIndex >= 1
                         THEN <<>>
                         ELSE <<Emit(SocketTo(joined, id, session), "device-joined",
                                     [device |-> device, totalDevices |-> Len(devices)])>>
     IN /\ rooms' = joined
        /\ sessions' = [store EXCEPT ![k].devices = devices]
        /\ emitted' = <<SessionInfo(id, devices)>> \o deviceJoined
  /\ last' = [ev |-> "join", id |-> id, session |-> session, arg |-> deviceInfo]
  /\ nJoins' = nJoins + 1
  /\ emptied' = emptied \ {session}
  /\ step' = StepAfterJoin(id, session)
  /\ UNCHANGED sockets

\* socket.on('join', ({ session, deviceInfo }) => ...)
Join(id, session, deviceInfo, now) ==
  /\ sockets[id] = "connected"
  /\ nJoins < MaxJoins
  /\ LET joined == [rooms EXCEPT ![session] = @ \cup {id}]
         store == IF HasSession(sessions, session)
                  THEN sessions
                  ELSE Append(sessions, [id |-> session, devices |-> <<>>])
         k == KeyIndex(store, session)
         existingDeviceIndex == FindIndex(store[k].devices, id)
         device == MakeDevice(id, deviceInfo, now)
         devices == IF existingDeviceIndex >= 1
                    THEN [store[k].devices EXCEPT ![existingDeviceIndex] = device]
                    ELSE Append(store[k].devices, device)
         deviceJoined == IF existingDeviceIndex >= 1
                         THEN <<>>
                         ELSE <<Emit(SocketTo(joined, id, session), "device-joined",
                                     [device |-> device, totalDevices |-> Len(devices)])>>
     IN /\ rooms' = joined
        /\ sessions' = [store EXCEPT ![k].devices = devices]
        /\ emitted' = deviceJoined \o <<SessionInfo(id, devices)>>
  /\ last' = [ev |-> "join", id |-> id, session |-> session, arg |-> deviceInfo]
  /\ nJoins' = nJoins + 1
  /\ emptied' = emptied \ {session}
  /\ step' = StepAfterJoin(id, session)
  /\ UNCHANGED sockets

\* A relay, transfer or verify-session handler reads the rooms and the store and
\* writes neither, so what it emits does not depend on the relay, transfer and
\* verify-session events handled before it.  The model lets such an event follow
\* a connection, join or disconnect directly: every combination of store, rooms
\* and handled event of the unrestricted server is still reached.
MembershipEvents == {"listen", "connection", "join", "disconnect"}
Settled == last.ev \in MembershipEvents

\* Mutant of RelayData: every kind is forwarded with the offer handler's argument.
RelayDataAsOffer(kind, payload) == [offer |-> payload]

\* The argument a relayed negotiation message carries: { offer }, { answer }
\* or { candidate }.
RelayData(kind, payload) ==
  CASE kind = "offer" -> [offer |-> payload]
    [] kind = "answer" -> [answer |-> payload]
    [] kind = "candidate" -> [candidate |-> payload]

\* socket.on('offer' | 'answer' | 'candidate', ({ session, <kind> }) => ...)
Relay(id, kind, session, payload) ==
  /\ sockets[id] = "connected"
  /\ Settled
  /\ emitted' = <<Emit(SocketTo(rooms, id, session), kind, RelayData(kind, payload))>>
  /\ last' = [ev |-> kind, id |-> id, session |-> session, arg |-> payload]
  /\ UNCHANGED <<sockets, sessions, rooms, nJoins, emptied, step>>

\* socket.on('transfer-start', ({ session, fileName, fileSize }) => ...)
TransferStart(id, session, file) ==
  /\ sockets[id] = "connected"
  /\ Settled
  /\ emitted' = <<Emit(SocketTo(rooms, id, session), "transfer-start",
                       [fileName |-> file.fileName, fileSize |-> file.fileSize])>>
  /\ last' = [ev |-> "transfer-start", id |-> id, session |-> session, arg |-> file]
  /\ UNCHANGED <<sockets, sessions, rooms, nJoins, emptied, step>>

\* socket.on('transfer-progress', ({ session, progress }) => ...)
TransferProgress(id, session, progress) ==
  /\ sockets[id] = "connected"
  /\ Settled
  /\ emitted' = <<Emit(SocketTo(rooms, id, session), "transfer-progress",
                       [progress |-> progress])>>
  /\ last' = [ev |-> "transfer-progress", id |-> id, session |-> session, arg |-> progress]
  /\ UNCHANGED <<sockets, sessions, rooms, nJoins, emptied, step>>

\* Mutant of TransferComplete: io.to(session) notifies the sender as well.
TransferCompleteToAll(id, session) ==
  /\ sockets[id] = "connected"
  /\ Settled
  /\ emitted' = <<Emit(IoTo(rooms, session), "transfer-complete", JsUndefined)>>
  /\ last' = [ev |-> "transfer-complete", id |-> id, session |-> session, arg |-> JsUndefined]
  /\ UNCHANGED <<sockets, sessions, rooms, nJoins, emptied, step>>

\* socket.on('transfer-complete', ({ session }) => ...): emitted with no argument.
TransferComplete(id, session) ==
  /\ sockets[id] = "connected"
  /\ Settled
  /\ emitted' = <<Emit(SocketTo(rooms, id, session), "transfer-complete", JsUndefined)>>
  /\ last' = [ev |-> "transfer-complete", id |-> id, session |-> session, arg |-> JsUndefined]
  /\ UNCHANGED <<sockets, sessions, rooms, nJoins, emptied, step>>

\* Mutant of VerifySession: a verify-session that creates the entry it asks for.
VerifySessionCreating(id, sessionId) ==
  /\ sockets[id] = "connected"
  /\ Settled
  /\ emitted' = <<Emit({id}, "session-verified",
                       [exists |-> JsBool(Len(DevicesOf(sessions, sessionId)) > 0),
                        sessionId |-> sessionId])>>
  /\ sessions' = IF HasSession(sessions, sessionId)
                 THEN sessions
                 ELSE Append(sessions, [id |-> sessionId, devices |-> <<>>])
  /\ last' = [ev |-> "verify-session", id |-> id, session |-> sessionId, arg |-> JsUndefined]
  /\ UNCHANGED <<sockets, rooms, nJoins, emptied, step>>

\* const exists = sessions[sessionId] && sessions[sessionId].devices.length > 0
Exists(store, sessionId) ==
  JsAnd(IF HasSession(store, sessionId) THEN JsString("[object Object]") ELSE JsUndefined,
        JsBool(Len(DevicesOf(store, sessionId)) > 0))

\* socket.on('verify-session', ({ sessionId }) => ...)
VerifySession(id, sessionId) ==
  /\ sockets[id] = "connected"
  /\ Settled
  /\ emitted' = <<Emit({id}, "session-verified",
                       [exists |-> Exists(sessions, sessionId), sessionId |-> sessionId])>>
  /\ last' = [ev |-> "verify-session", id |-> id, session |-> sessionId, arg |-> JsUndefined]
  /\ UNCHANGED <<sockets, sessions, rooms, nJoins, emptied, step>>

\* Mutant of CleanUp: the loop without its delete of an emptied session.
RECURSIVE CleanUpKeepEmpty(_, _, _, _)
CleanUpKeepEmpty(store, i, id, rms) ==
  IF i > Len(store)
  THEN [sessions |-> <<>>, emitted |-> <<>>]
  ELSE LET rest == CleanUpKeepEmpty(store, i + 1, id, rms)
           devices == FilterOut(store[i].devices, id)
       IN [sessions |-> <<[id |-> store[i].id, devices |-> devices]>> \o rest.sessions,
           emitted |-> IF Len(devices) = 0
                       THEN rest.emitted
                       ELSE <<Emit(IoTo(rms, store[i].id), "device-left",
                                   [socketId |-> id, totalDevices |-> Len(devices)])>>
                            \o rest.emitted]

\* The for...in loop of the disconnect handler from property i of the store on:
\* the store it leaves and the emit calls it makes.  Each iteration reads and
\* writes only its own property, so the loop is a fold over the properties.
RECURSIVE CleanUp(_, _, _, _)
CleanUp(store, i, id, rms) ==
  IF i > Len(store)
  THEN [sessions |-> <<>>, emitted |-> <<>>]
  ELSE LET rest == CleanUp(store, i + 1, id, rms)
           devices == FilterOut(store[i].devices, id)
       IN IF Len(devices) = 0
          THEN rest
          ELSE [sessions |-> <<[id |-> store[i].id, devices |-> devices]>> \o rest.sessions,
                emitted |-> <<Emit(IoTo(rms, store[i].id), "device-left",
                                   [socketId |-> id, totalDevices |-> Len(devices)])>>
                            \o rest.emitted]

\* Socket.IO's close of a socket: it leaves every room before the 'disconnect'
\* event is emitted.
LeaveAll(rms, id) == [r \in DOMAIN rms |-> rms[r] \ {id}]

\* socket.on('disconnect', () => ...)
Disconnect(id) ==
  /\ sockets[id] = "connected"
  /\ sockets' = [sockets EXCEPT ![id] = "disconnected"]
  /\ rooms' = LeaveAll(rooms, id)
  /\ LET done == CleanUp(sessions, 1, id, LeaveAll(rooms, id))
     IN /\ sessions' = done.sessions
        /\ emitted' = done.emitted
  /\ last' = [ev |-> "disconnect", id |-> id, session |-> "", arg |-> JsUndefined]
  /\ emptied' = emptied \cup {s \in SessionIds :
                                 /\ \E i \in 1..Len(sessions) :
                                      /\ sessions[i].id = s
                                      /\ Len(sessions[i].devices) = 1
                                      /\ sessions[i].devices[1].id = id}
  /\ step' = StepAfterDisconnect(id)
  /\ UNCHANGED nJoins

\* The file a transfer-start announces.
Files == {[fileName |-> "a.txt", fileSize |-> 3]}

Next ==
  \/ \E id \in Conns : Connection(id) /\ UNCHANGED <<ovars, tvars, cvars>>
  \/ \E id \in Conns, session \in SessionIds, deviceInfo \in DeviceInfos, now \in Clock :
       Join(id, session, deviceInfo, now) /\ UNCHANGED <<ovars, tvars, cvars>>
  \/ \E id \in Conns, kind \in {"offer", "answer", "candidate"},
        session \in Targets, payload \in Payloads :
       Relay(id, kind, session, payload) /\ UNCHANGED <<ovars, tvars, cvars>>
  \/ \E id \in Conns, session \in Targets, file \in Files :
       TransferStart(id, session, file) /\ UNCHANGED <<ovars, tvars, cvars>>
  \/ \E id \in Conns, session \in Targets, progress \in Progresses :
       TransferProgress(id, session, progress) /\ UNCHANGED <<ovars, tvars, cvars>>
  \/ \E id \in Conns, session \in Targets : TransferComplete(id, session) /\ UNCHANGED <<ovars, tvars, cvars>>
  \/ \E id \in Conns, sessionId \in Targets : VerifySession(id, sessionId) /\ UNCHANGED <<ovars, tvars, cvars>>
  \/ \E id \in Conns : Disconnect(id) /\ UNCHANGED <<ovars, tvars, cvars>>

Spec == Init /\ [][Next]_vars

\* ----------------------------------------- the join-defaults specification
\* The membership handlers alone, two connections and one session, with the
\* join's deviceInfo drawn from PartialInfos.
JoinNext ==
  \/ \E id \in {X, Y} : Connection(id) /\ UNCHANGED <<ovars, tvars, cvars>>
  \/ \E id \in {X, Y}, deviceInfo \in PartialInfos, now \in Clock :
       Join(id, ScenarioSession, deviceInfo, now) /\ UNCHANGED <<ovars, tvars, cvars>>
  \/ \E id \in {X, Y} : Disconnect(id) /\ UNCHANGED <<ovars, tvars, cvars>>

JoinSpec == Init /\ [][JoinNext]_vars

\* ------------------------------------------ the repeated-cleanup specification
\* The membership handlers, and the disconnect handler run once more for a
\* socket whose disconnect was handled already.

\* The body of socket.on('disconnect') for a socket that has left its rooms.
DisconnectAgain(id) ==
  /\ sockets[id] = "disconnected"
  /\ LET done == CleanUp(sessions, 1, id, rooms)
     IN /\ sessions' = done.sessions
        /\ emitted' = done.emitted
  /\ last' = [ev |-> "disconnect", id |-> id, session |-> "", arg |-> JsUndefined]
  /\ UNCHANGED <<sockets, rooms, nJoins, emptied, step>>

RepeatNext ==
  \/ \E id \in Conns : Connection(id) /\ UNCHANGED <<ovars, tvars, cvars>>
  \/ \E id \in Conns, session \in SessionIds, now \in Clock :
       Join(id, session, NoInfo, now) /\ UNCHANGED <<ovars, tvars, cvars>>
  \/ \E id \in Conns : Disconnect(id) /\ UNCHANGED <<ovars, tvars, cvars>>
  \/ \E id \in Conns : DisconnectAgain(id) /\ UNCHANGED <<ovars, tvars, cvars>>

RepeatSpec == Init /\ [][RepeatNext]_vars

\* ---- the server with joins that name any room
\* The session of a join is any string the client sends: device ids are
\* socket ids and go out in device-joined and session-info, so a client can
\* name another socket's id, which is also the room that socket is in alone.
RoomNext ==
  \/ \E id \in Conns : Connection(id) /\ UNCHANGED <<ovars, tvars, cvars>>
  \/ \E id \in Conns, session \in Targets, now \in Clock :
       Join(id, session, NoInfo, now) /\ UNCHANGED <<ovars, tvars, cvars>>
  \/ \E id \in Conns : Disconnect(id) /\ UNCHANGED <<ovars, tvars, cvars>>

RoomSpec == Init /\ [][RoomNext]_vars

\* ---- the server with pages that reset their session
\* resetSession on the page of a connection that joined a session: the page
\* forgets the session, closes its peer connection and takes its listeners
\* off the socket.  It emits nothing, so no handler of the server runs.
PageResetSession(id, session) ==
  /\ sockets[id] = "connected"
  /\ id \in IdsOf(DevicesOf(sessions, session))
  /\ emitted' = <<>>
  /\ last' = [ev |-> "resetSession", id |-> id, session |-> session, arg |-> JsUndefined]
  /\ UNCHANGED <<sockets, sessions, rooms, nJoins, emptied, step>>

\* createSession joins the session it made as a sender; a page that made a
\* session before makes the next one on the same socket.
LeaveNext ==
  \/ \E id \in Conns : Connection(id) /\ UNCHANGED <<ovars, tvars, cvars>>
  \/ \E id \in Conns, session \in SessionIds, now \in Clock :
       Join(id, session, SenderInfo, now) /\ UNCHANGED <<ovars, tvars, cvars>>
  \/ \E id \in Conns, session \in SessionIds :
       PageResetSession(id, session) /\ UNCHANGED <<ovars, tvars, cvars>>
  \/ \E id \in Conns : Disconnect(id) /\ UNCHANGED <<ovars, tvars, cvars>>

LeaveSpec == Init /\ [][LeaveNext]_vars

\* ------------------------------------------- the observation specification
\* The membership handlers together with the delivery of what they emit: the
\* transport hands a socket's messages to its client one at a time, in the
\* order the server emitted them.

\* A membership notification as a client sees it: the mutation it reports (by
\* its number in the server's order) and the devices it names.
Notice(e, n) ==
  [n |-> n, ev |-> e.ev,
   ids |-> CASE e.ev = "device-joined" -> {e.data.device.id}
             [] e.ev = "session-info" -> IdsOf(e.data.devices)
             [] e.ev = "device-left" -> {e.data.socketId}]

\* The notices of emit calls es (of mutation n) that reach socket c, in order.
RECURSIVE NoticesFor(_, _, _)
NoticesFor(es, c, n) ==
  IF es = <<>> THEN <<>>
  ELSE (IF c \in Head(es).to THEN <<Notice(Head(es), n)>> ELSE <<>>)
       \o NoticesFor(Tail(es), c, n)

\* A join is handled and what it emitted is on its way.
ObservedJoin(id, session, deviceInfo, now) ==
  /\ Join(id, session, deviceInfo, now)
  /\ applied' = applied + 1
  /\ wire' = [c \in Conns |-> wire[c] \o NoticesFor(emitted', c, applied + 1)]
  /\ UNCHANGED <<seen, tvars, cvars>>

\* A disconnect is handled: what was on its way to the closed socket is lost.
ObservedDisconnect(id) ==
  /\ Disconnect(id)
  /\ applied' = applied + 1
  /\ wire' = [c \in Conns |->
               IF c = id THEN <<>> ELSE wire[c] \o NoticesFor(emitted', c, applied + 1)]
  /\ UNCHANGED <<seen, tvars, cvars>>

\* The client of socket c handles the oldest notification on its way.
Observe(c) ==
  /\ sockets[c] = "connected"
  /\ wire[c] # <<>>
  /\ seen' = [seen EXCEPT ![c] = Append(@, Head(wire[c]))]
  /\ wire' = [wire EXCEPT ![c] = Tail(@)]
  /\ UNCHANGED <<svars, applied, tvars, cvars>>

OrderNext ==
  \/ \E id \in Conns : Connection(id) /\ UNCHANGED <<ovars, tvars, cvars>>
  \/ \E id \in Conns, session \in SessionIds, now \in Clock :
       ObservedJoin(id, session, NoInfo, now)
  \/ \E id \in Conns : ObservedDisconnect(id)
  \/ \E c \in Conns : Observe(c)

OrderSpec == Init /\ [][OrderNext]_vars

\* ------------------------------------------------ the transfer specification
\* One transfer from the sending page to a receiving page over the data
\* channel: reader.onload and the paced sendChunk loop of Sender.jsx, the
\* channel's queue, and dc.onmessage of Receiver.jsx.  Every callback runs to
\* completion on the page's event loop, so each is one atomic action.

\* Largest file, in bytes, and largest chunk size among the small inputs.
MaxFileSize == 4
MaxChunkSize == 3

\* The chunk sizes dc.onopen chooses, for a desktop and for a mobile browser.
ChunkSizeDesktop == 16384
ChunkSizeMobile == 8192

\* A watermark no buffered amount is at or below.
BufferLimitBelowEmpty == 0 - 1

\* A watermark of twice the size.
BufferLimitDoubled == 2 * 1024 * 1024

\* The watermark of dc.bufferedAmount above which sendChunk waits.
BufferLimit == 1024 * 1024

\* The pacing delay, the wait on a full buffer and the receiver's defaults do
\* not enter the model: time is the order of the actions.

\* ---- byte sequences
\* An ArrayBuffer is held as the runs of equal bytes it consists of, in order:
\* <<[b |-> byte, n |-> how many>>, ...>>, each n positive and neighbouring
\* runs of different bytes.  Every byte sequence has exactly one such form, so
\* equality of forms is equality of byte sequences.
ByteValues == {0, 255}

\* Concatenation of two byte sequences.
Concat(a, b) ==
  IF a = <<>> THEN b
  ELSE IF b = <<>> THEN a
  ELSE IF a[Len(a)].b = b[1].b
       THEN SubSeq(a, 1, Len(a) - 1)
            \o <<[b |-> b[1].b, n |-> a[Len(a)].n + b[1].n]>>
            \o Tail(b)
       ELSE a \o b

\* The byte sequence with the bytes of s, a sequence of byte values.
RECURSIVE Encode(_)
Encode(s) ==
  IF s = <<>> THEN <<>> ELSE Concat(<<[b |-> Head(s), n |-> 1]>>, Encode(Tail(s)))

\* arrayBuffer.byteLength
RECURSIVE ByteLength(_)
ByteLength(buf) ==
  IF buf = <<>> THEN 0 ELSE Head(buf).n + ByteLength(Tail(buf))

\* Mutant of Slice: a slice that always has end - begin bytes, the buffer's
\* last byte repeated past its end.
SlicePadded(buf, begin, end) ==
  IF buf = <<>> \/ end <= begin THEN <<>>
  ELSE Concat(<<[b |-> buf[Len(buf)].b, n |-> end - begin]>>, <<>>)

\* arrayBuffer.slice(begin, end) for 0 <= begin: the bytes at the positions
\* begin .. end - 1 that the buffer has.
RECURSIVE Slice(_, _, _)
Slice(buf, begin, end) ==
  IF buf = <<>> \/ end <= 0 THEN <<>>
  ELSE LET run == Head(buf)
           from == IF begin > 0 THEN begin ELSE 0
           to == IF end < run.n THEN end ELSE run.n
       IN Concat(IF from < to THEN <<[b |-> run.b, n |-> to - from]>> ELSE <<>>,
                 Slice(Tail(buf), begin - run.n, end - run.n))

\* Mutant of Blob: the parts joined last first.
RECURSIVE BlobReversed(_)
BlobReversed(parts) ==
  IF parts = <<>> THEN <<>> ELSE Concat(BlobReversed(Tail(parts)), Head(parts))

\* new Blob(parts): the parts' bytes, in the order of the array.  The bytes
\* of the later parts are computed once, then the first part is put before.
RECURSIVE Blob(_)
Blob(parts) ==
  IF parts = <<>> THEN <<>>
  ELSE CHOOSE bytes \in {Concat(Head(parts), rest) : rest \in {Blob(Tail(parts))}} : TRUE

\* ---- inputs
\* The files of at most MaxFileSize bytes, and two files of zero bytes that are
\* a megabyte long: one below the watermark and one above it.
SmallBuffers == {Encode(s) : s \in UNION {[1..n -> ByteValues] : n \in 0..MaxFileSize}}
LargeBuffers == {<<[b |-> 0, n |-> 1000000]>>, <<[b |-> 0, n |-> 1100000]>>}
FileNames == {"a.txt"}

\* A transfer's inputs: the file and the chunk size.  The source fixes the
\* chunk size to one of two values; the small files are also sent with every
\* chunk size up to MaxChunkSize.
Transfers ==
  {[file |-> [name |-> name, bytes |-> bytes], chunkSize |-> chunkSize] :
     name \in FileNames, bytes \in SmallBuffers,
     chunkSize \in (1..MaxChunkSize) \cup {ChunkSizeMobile, ChunkSizeDesktop}}
  \cup
  {[file |-> [name |-> name, bytes |-> bytes], chunkSize |-> ChunkSizeDesktop] :
     name \in FileNames, bytes \in LargeBuffers}

\* ---- data channel messages
\* JSON.stringify({ type: 'filename', name }): a string message; size is the
\* length of the text, which is what it adds to bufferedAmount.
FilenameMessage(name) ==
  [kind |-> "string", json |-> [type |-> "filename", name |-> name],
   size |-> 29 + Len(name)]

\* The string 'EOF'.
EOFMessage == [kind |-> "string", text |-> "EOF", size |-> Len("EOF")]

\* A binary message.
ChunkMessage(data) == [kind |-> "binary", data |-> data, size |-> ByteLength(data)]

IsEOF(m) == m.kind = "string" /\ "text" \in DOMAIN m /\ m.text = "EOF"
IsFilename(m) == m.kind = "string" /\ "json" \in DOMAIN m /\ m.json.type = "filename"
IsChunk(m) == m.kind = "binary"

\* dc.bufferedAmount: the bytes of the messages queued and not yet delivered.
RECURSIVE BufferedAmount(_)
BufferedAmount(queue) ==
  IF queue = <<>> THEN 0 ELSE Head(queue).size + BufferedAmount(Tail(queue))

\* Math.round(x) for x = num / den >= 0: the nearest integer, halves upwards.
\* For the sizes of the inputs above the quotient JavaScript computes in
\* floating point rounds to the same integer as the exact quotient.
MathRound(num, den) == (2 * num + den) \div (2 * den)

\* Math.round((offset / totalSize) * 100)
Percent(offset, totalSize) == MathRound(offset * 100, totalSize)

\* Mutant of Advance: the offset moved to the end of the file at once.
AdvanceToEnd(offset, chunkSize, totalSize) ==
  IF offset + chunkSize < totalSize THEN totalSize ELSE offset + chunkSize

\* offset += chunkSize
Advance(offset, chunkSize, totalSize) == offset + chunkSize

\* ---- the sender
\* The value of isTransferring that dc.onclose reads: the one of the render in
\* which startSending was created.  The Send button is disabled while
\* isTransferring is true, so that value is false.
StaleIsTransferring == FALSE

\* startSending has run and the data channel has opened: transfer-start is
\* emitted, dc.onopen has chosen the chunk size and has asked the FileReader
\* for the file's bytes; the receiver has set up its connection and has
\* handled transfer-start, which reached it on the signaling connection before
\* the offer that opened the channel.
Started(t) ==
  /\ sender = [pc |-> "reading", file |-> t.file, chunkSize |-> t.chunkSize,
               offset |-> 0, isTransferring |-> TRUE, transferProgress |-> 0,
               progressLog |-> <<0>>,
               socketLog |-> <<[ev |-> "transfer-start", fileName |-> t.file.name,
                                fileSize |-> ByteLength(t.file.bytes)]>>,
               connectionState |-> "connected", reset |-> FALSE, thrown |-> {}]
  /\ dc = [readyState |-> "open", queue |-> <<>>, sent |-> <<>>]
  /\ receiver = [connectionState |-> "receiving", chunks |-> <<>>,
                 totalSize |-> ByteLength(t.file.bytes), receivedSize |-> 0,
                 originalFileName |-> "received_file", downloads |-> <<>>,
                 downloadProgress |-> 0]
  /\ handled = 1

TransferInit == Listening /\ NoPage /\ \E t \in Transfers : Started(t)

\* const totalSize = arrayBuffer.byteLength
TotalSize == ByteLength(sender.file.bytes)

\* A call of sendChunk is due: the synchronous one at the end of reader.onload
\* or one a setTimeout scheduled.
SendChunkDue == sender.pc \in {"reading", "timer"}

\* What reader.onload puts on the channel before it calls sendChunk.
Preamble ==
  IF sender.pc = "reading" THEN <<FilenameMessage(sender.file.name)>> ELSE <<>>

\* dc.send of messages: they are queued for delivery.
Send(msgs) == dc' = [dc EXCEPT !.queue = @ \o msgs, !.sent = @ \o msgs]

\* reader.onload on a channel that is no longer open: dc.send of the file name
\* throws and the handler ends there.
OnloadThrows ==
  /\ sender.pc = "reading"
  /\ dc.readyState # "open"
  /\ sender' = [sender EXCEPT !.pc = "stopped",
                              !.thrown = @ \cup {"reader.onload: dc.send"}]
  /\ UNCHANGED <<dc, receiver>>

\* The completing call, had it not returned but scheduled itself again.
SendChunkDoneAgain ==
  /\ SendChunkDue
  /\ dc.readyState = "open"
  /\ sender.offset >= TotalSize
  /\ Send(Preamble \o <<EOFMessage>>)
  /\ sender' = [sender EXCEPT !.pc = "timer",
                              !.transferProgress = 100,
                              !.progressLog = Append(@, 100),
                              !.socketLog = Append(@, [ev |-> "transfer-complete"]),
                              !.isTransferring = FALSE]
  /\ UNCHANGED receiver

\* sendChunk, offset >= totalSize: EOF, progress 100, transfer-complete.
SendChunkDone ==
  /\ SendChunkDue
  /\ dc.readyState = "open"
  /\ sender.offset >= TotalSize
  /\ Send(Preamble \o <<EOFMessage>>)
  /\ sender' = [sender EXCEPT !.pc = "stopped",
                              !.transferProgress = 100,
                              !.progressLog = Append(@, 100),
                              !.socketLog = Append(@, [ev |-> "transfer-complete"]),
                              !.isTransferring = FALSE]
  /\ UNCHANGED receiver

\* sendChunk, offset >= totalSize, on a channel that is no longer open:
\* dc.send('EOF') throws, outside any try, and the call ends there.
SendChunkDoneThrows ==
  /\ sender.pc = "timer"
  /\ dc.readyState # "open"
  /\ sender.offset >= TotalSize
  /\ sender' = [sender EXCEPT !.pc = "stopped",
                              !.thrown = @ \cup {"sendChunk: dc.send('EOF')"}]
  /\ UNCHANGED <<dc, receiver>>

\* sendChunk, the buffer above the watermark: nothing is sent and the call is
\* scheduled again.
SendChunkWait ==
  /\ SendChunkDue
  /\ sender.pc = "reading" => dc.readyState = "open"
  /\ sender.offset < TotalSize
  /\ BufferedAmount(dc.queue \o Preamble) > BufferLimit
  /\ Send(Preamble)
  /\ sender' = [sender EXCEPT !.pc = "timer"]
  /\ UNCHANGED receiver

\* sendChunk, dc.send(chunk) throws because the channel is no longer open: the
\* catch block calls setStatus, which Sender.jsx does not define, so the
\* ReferenceError ends the call before setIsTransferring(false).
SendChunkThrows ==
  /\ sender.pc = "timer"
  /\ dc.readyState # "open"
  /\ sender.offset < TotalSize
  /\ BufferedAmount(dc.queue) <= BufferLimit
  /\ sender' = [sender EXCEPT !.pc = "stopped",
                              !.thrown = @ \cup {"sendChunk: setStatus is not defined"}]
  /\ UNCHANGED <<dc, receiver>>

\* sendChunk, the chunk at offset is sent, offset advances by the chunk size,
\* the progress is reported and emitted, and the next call is scheduled.
SendChunkSend ==
  /\ SendChunkDue
  /\ dc.readyState = "open"
  /\ sender.offset < TotalSize
  /\ BufferedAmount(dc.queue \o Preamble) <= BufferLimit
  /\ LET chunk == Slice(sender.file.bytes, sender.offset, sender.offset + sender.chunkSize)
         offset == Advance(sender.offset, sender.chunkSize, TotalSize)
         progress == Percent(offset, TotalSize)
     IN /\ Send(Preamble \o <<ChunkMessage(chunk)>>)
        /\ sender' = [sender EXCEPT !.pc = "timer",
                                    !.offset = offset,
                                    !.transferProgress = progress,
                                    !.progressLog = Append(@, progress),
                                    !.socketLog = Append(@, [ev |-> "transfer-progress",
                                                             progress |-> progress])]
  /\ UNCHANGED receiver

\* The channel closes: dc.onclose tests the stale isTransferring.
DcClose ==
  /\ dc.readyState = "open"
  /\ dc' = [dc EXCEPT !.readyState = "closed"]
  /\ sender' = IF StaleIsTransferring
               THEN [sender EXCEPT !.thrown = @ \cup {"dc.onclose: setStatus is not defined"}]
               ELSE sender
  /\ UNCHANGED receiver

\* The channel fails: it is closed, and dc.onerror calls setStatus, which is
\* not defined, before setIsTransferring(false); dc.onclose follows.
DcError ==
  /\ dc.readyState = "open"
  /\ dc' = [dc EXCEPT !.readyState = "closed"]
  /\ sender' = [sender EXCEPT !.thrown = @ \cup {"dc.onerror: setStatus is not defined"}]
  /\ UNCHANGED receiver

\* pc.onconnectionstatechange with 'failed' or 'disconnected'.
ConnectionStateChange(state) ==
  /\ sender.connectionState = "connected"
  /\ sender' = [sender EXCEPT !.connectionState = state, !.isTransferring = FALSE]
  /\ UNCHANGED <<dc, receiver>>

\* resetSession: the page's state is reset and the peer connection closed, and
\* with it the data channel; a scheduled sendChunk is not cancelled.
ResetSession ==
  /\ ~sender.reset
  /\ sender' = [sender EXCEPT !.reset = TRUE, !.isTransferring = FALSE,
                              !.transferProgress = 0]
  /\ dc' = [dc EXCEPT !.readyState = "closed"]
  /\ UNCHANGED receiver

\* ---- the receiver
\* The binary message handler, had it pushed the chunk without counting it.
ReceiveChunkUncounted ==
  /\ dc.readyState = "open"
  /\ dc.queue # <<>>
  /\ IsChunk(Head(dc.queue))
  /\ receiver' = [receiver EXCEPT !.chunks = Append(@, Head(dc.queue).data)]
  /\ dc' = [dc EXCEPT !.queue = Tail(@)]
  /\ UNCHANGED sender

\* dc.onmessage, a binary message: it is pushed to chunks and counted, and
\* the progress shown is taken from the bytes received.
ReceiveChunk ==
  /\ dc.readyState = "open"
  /\ dc.queue # <<>>
  /\ IsChunk(Head(dc.queue))
  /\ LET data == Head(dc.queue).data
         totalSize == receiver.totalSize
         receivedSize == receiver.receivedSize + ByteLength(data)
     IN receiver' = [receiver EXCEPT
                       !.chunks = Append(@, data),
                       !.receivedSize = receivedSize,
                       !.downloadProgress =
                          IF totalSize > 0 THEN Percent(receivedSize, totalSize) ELSE 0]
  /\ dc' = [dc EXCEPT !.queue = Tail(@)]
  /\ UNCHANGED sender

\* dc.onmessage, the string with the file name.
ReceiveFilename ==
  /\ dc.readyState = "open"
  /\ dc.queue # <<>>
  /\ IsFilename(Head(dc.queue))
  /\ receiver' = [receiver EXCEPT !.originalFileName = Head(dc.queue).json.name,
                                  !.connectionState = "receiving"]
  /\ dc' = [dc EXCEPT !.queue = Tail(@)]
  /\ UNCHANGED sender

\* dc.onmessage, the string 'EOF': the chunks are made a Blob and downloaded
\* under the file name.
ReceiveEOF ==
  /\ dc.readyState = "open"
  /\ dc.queue # <<>>
  /\ IsEOF(Head(dc.queue))
  /\ receiver' = [receiver EXCEPT
                    !.downloads = Append(@, [download |-> receiver.originalFileName,
                                             blob |-> Blob(receiver.chunks)]),
                    !.downloadProgress = 100,
                    !.connectionState = "completed"]
  /\ dc' = [dc EXCEPT !.queue = Tail(@)]
  /\ UNCHANGED sender

TransferNext ==
  \/ OnloadThrows /\ UNCHANGED <<svars, ovars, cvars, handled>>
  \/ SendChunkDone /\ UNCHANGED <<svars, ovars, cvars, handled>>
  \/ SendChunkDoneThrows /\ UNCHANGED <<svars, ovars, cvars, handled>>
  \/ SendChunkWait /\ UNCHANGED <<svars, ovars, cvars, handled>>
  \/ SendChunkThrows /\ UNCHANGED <<svars, ovars, cvars, handled>>
  \/ SendChunkSend /\ UNCHANGED <<svars, ovars, cvars, handled>>
  \/ DcClose /\ UNCHANGED <<svars, ovars, cvars, handled>>
  \/ DcError /\ UNCHANGED <<svars, ovars, cvars, handled>>
  \/ \E state \in {"failed", "disconnected"} :
       ConnectionStateChange(state) /\ UNCHANGED <<svars, ovars, cvars, handled>>
  \/ ResetSession /\ UNCHANGED <<svars, ovars, cvars, handled>>
  \/ ReceiveChunk /\ UNCHANGED <<svars, ovars, cvars, handled>>
  \/ ReceiveFilename /\ UNCHANGED <<svars, ovars, cvars, handled>>
  \/ ReceiveEOF /\ UNCHANGED <<svars, ovars, cvars, handled>>

TransferSpec == TransferInit /\ [][TransferNext]_vars

\* ---- the transfer with its timers and message handlers run
\* A call of sendChunk that setTimeout scheduled, or the one reader.onload
\* makes, is run by the event loop of the sender's page.
SenderRuns == (SendChunkSend \/ SendChunkDone) /\ UNCHANGED <<svars, ovars, cvars, handled>>

\* A message at the head of the channel is handed to the receiver's
\* dc.onmessage, which takes it off the buffered amount of the sender.
ReceiverRuns ==
  (ReceiveChunk \/ ReceiveFilename \/ ReceiveEOF) /\ UNCHANGED <<svars, ovars, cvars, handled>>

\* ---- the transfer on a channel that loses messages
\* The channel is created with maxRetransmits: 3, so a message that is not
\* acknowledged after three retransmissions is given up and never delivered.
DcDrop ==
  /\ dc.readyState = "open"
  /\ dc.queue # <<>>
  /\ dc' = [dc EXCEPT !.queue = Tail(@)]
  /\ UNCHANGED <<sender, receiver>>

LossyInit ==
  /\ Listening
  /\ NoPage
  /\ \E t \in Transfers : ByteLength(t.file.bytes) <= MaxFileSize /\ Started(t)

LossyNext ==
  \/ SenderRuns
  \/ ReceiverRuns
  \/ DcDrop /\ UNCHANGED <<svars, ovars, cvars, handled>>

LossySpec == LossyInit /\ [][LossyNext]_vars

\* The sender's loop, the channel and the receiver: the steps of a transfer
\* nobody resets, on a channel that may close.
FairTransferNext ==
  \/ SenderRuns
  \/ SendChunkWait /\ UNCHANGED <<svars, ovars, cvars, handled>>
  \/ ReceiverRuns
  \/ DcClose /\ UNCHANGED <<svars, ovars, cvars, handled>>
  \/ OnloadThrows /\ UNCHANGED <<svars, ovars, cvars, handled>>
  \/ SendChunkThrows /\ UNCHANGED <<svars, ovars, cvars, handled>>
  \/ SendChunkDoneThrows /\ UNCHANGED <<svars, ovars, cvars, handled>>

FairTransferSpec ==
  /\ TransferInit
  /\ [][FairTransferNext]_vars
  /\ WF_vars(SenderRuns)
  /\ WF_vars(ReceiverRuns)

\* ---- the transfer with its signaling events
\* startSending has emitted transfer-start and the offer on the sender's
\* socket; the receiving page has joined the session and set its handlers,
\* and has handled nothing yet.  The server relays the sender's events to it
\* in the order they were emitted.
StartedSending(t) ==
  /\ sender = [pc |-> "negotiating", file |-> t.file, chunkSize |-> t.chunkSize,
               offset |-> 0, isTransferring |-> TRUE, transferProgress |-> 0,
               progressLog |-> <<0>>,
               socketLog |-> <<[ev |-> "transfer-start", fileName |-> t.file.name,
                                fileSize |-> ByteLength(t.file.bytes)],
                               [ev |-> "offer"]>>,
               connectionState |-> "connecting", reset |-> FALSE, thrown |-> {}]
  /\ dc = [readyState |-> "connecting", queue |-> <<>>, sent |-> <<>>]
  /\ receiver = [connectionState |-> "waiting", chunks |-> <<>>, totalSize |-> 0,
                 receivedSize |-> 0, originalFileName |-> "received_file",
                 downloads |-> <<>>, downloadProgress |-> 0]
  /\ handled = 0

SignalInit ==
  /\ Listening
  /\ NoPage
  /\ \E t \in Transfers : ByteLength(t.file.bytes) <= MaxFileSize /\ StartedSending(t)

\* The next event of the sender's socket the receiving page is to handle.
NextSignal == sender.socketLog[handled + 1]

\* An event of the sender is at the receiving page.
SignalDue(ev) ==
  /\ handled < Len(sender.socketLog)
  /\ NextSignal.ev = ev

\* Mutant of HandleTransferStart: the handler without its totalSize = fileSize.
HandleTransferStartNoSize ==
  /\ SignalDue("transfer-start")
  /\ receiver' = [receiver EXCEPT !.connectionState = "receiving"]
  /\ handled' = handled + 1
  /\ UNCHANGED <<sender, dc>>

\* handleTransferStart
HandleTransferStart ==
  /\ SignalDue("transfer-start")
  /\ receiver' = [receiver EXCEPT !.connectionState = "receiving",
                                  !.totalSize = NextSignal.fileSize]
  /\ handled' = handled + 1
  /\ UNCHANGED <<sender, dc>>

\* handleOffer: the remote description is set and the answer sent back.
HandleOffer ==
  /\ SignalDue("offer")
  /\ handled' = handled + 1
  /\ UNCHANGED <<sender, dc, receiver>>

\* handleTransferProgress: the sender's progress is shown.
HandleTransferProgress ==
  /\ SignalDue("transfer-progress")
  /\ receiver' = [receiver EXCEPT !.downloadProgress = NextSignal.progress]
  /\ handled' = handled + 1
  /\ UNCHANGED <<sender, dc>>

\* handleTransferComplete
HandleTransferComplete ==
  /\ SignalDue("transfer-complete")
  /\ receiver' = [receiver EXCEPT !.connectionState = "completed",
                                  !.downloadProgress = 100]
  /\ handled' = handled + 1
  /\ UNCHANGED <<sender, dc>>

\* dc.onopen on the sender: the channel opens once the receiver has answered
\* the offer, and the file is read.
DcOpen ==
  /\ dc.readyState = "connecting"
  /\ handled >= 2
  /\ dc' = [dc EXCEPT !.readyState = "open"]
  /\ sender' = [sender EXCEPT !.pc = "reading", !.connectionState = "connected"]
  /\ UNCHANGED <<receiver, handled>>

SignalNext ==
  \/ HandleTransferStart /\ UNCHANGED <<svars, ovars, cvars>>
  \/ HandleOffer /\ UNCHANGED <<svars, ovars, cvars>>
  \/ HandleTransferProgress /\ UNCHANGED <<svars, ovars, cvars>>
  \/ HandleTransferComplete /\ UNCHANGED <<svars, ovars, cvars>>
  \/ DcOpen /\ UNCHANGED <<svars, ovars, cvars>>
  \/ SenderRuns
  \/ ReceiverRuns

SignalSpec == SignalInit /\ [][SignalNext]_vars

\* ---- two transfers to one receiving page
\* startSending for the next file, once the file before it was sent and
\* downloaded: a new closure and a new data channel on the sender.  The
\* receiving page is the one it was: the transfer-start of the new file sets
\* totalSize, and the messages of the new channel go to the dc.onmessage
\* that closes over the same chunks, receivedSize and originalFileName.
StartSendingAgain(t) ==
  /\ sender.pc = "stopped"
  /\ ~sender.isTransferring
  /\ dc.readyState = "open"
  /\ dc.queue = <<>>
  /\ Len(receiver.downloads) = 1
  /\ sender' = [pc |-> "reading", file |-> t.file, chunkSize |-> t.chunkSize,
                offset |-> 0, isTransferring |-> TRUE, transferProgress |-> 0,
                progressLog |-> <<0>>,
                socketLog |-> <<[ev |-> "transfer-start", fileName |-> t.file.name,
                                 fileSize |-> ByteLength(t.file.bytes)]>>,
                connectionState |-> "connected", reset |-> FALSE, thrown |-> {}]
  /\ dc' = [readyState |-> "open", queue |-> <<>>, sent |-> <<>>]
  /\ receiver' = [receiver EXCEPT !.connectionState = "receiving",
                                  !.totalSize = ByteLength(t.file.bytes)]
  /\ handled' = 1

\* The files of the two transfers.
TwoFileTransfers ==
  {t \in Transfers : ByteLength(t.file.bytes) <= MaxFileSize - 2 /\ t.chunkSize <= 2}

TwoFileInit ==
  /\ Listening
  /\ NoPage
  /\ \E t \in TwoFileTransfers : Started(t)

TwoFileNext ==
  \/ SenderRuns
  \/ ReceiverRuns
  \/ \E t \in TwoFileTransfers : StartSendingAgain(t) /\ UNCHANGED <<svars, ovars, cvars>>

TwoFileSpec == TwoFileInit /\ [][TwoFileNext]_vars

\* ------------------------------------------ the session-check specification
\* A page that calls verifySession, the server that answers it and the two
\* events in between.  The page is the Sender's, whose joinReceiveSession
\* checks the identifier typed in, or the Receiver's, whose useEffect runs
\* attemptConnection for the session of its URL.

\* The socket of the page, and the session a Receiver page was opened for
\* (useParams, then toLowerCase).
PageSocket == "c1"
PageSession == ToLowerCase("AB12CD")

\* What a user types into the Sender's field, trimmed and in lower case.
TypedSessions == {PageSession, "c2"}

\* A retry limit of one more.
maxRetriesFour == 3 + 1

\* const maxRetries = 3
maxRetries == 3

\* The closure of one call of verifySession: the arguments, the listener put
\* on the socket, the timer, the Receiver's flag; retryCount is the argument
\* of the attemptConnection that made the call.
NewCall(page, sessionId, retryCount) ==
  [page |-> page, sessionId |-> sessionId, retryCount |-> retryCount,
   listening |-> TRUE, timer |-> TRUE, callbackCalled |-> FALSE,
   callbacks |-> <<>>]

\* The test of onSessionVerified on a session-verified event.
Handles(call, msg) ==
  /\ call.listening
  /\ msg.sessionId = call.sessionId
  /\ call.page = "Receiver" => ~call.callbackCalled

\* onSessionVerified past its test: the Receiver's sets the flag and clears
\* the timer, both take the listener off and invoke the callback.
OnSessionVerified(call, exists) ==
  IF call.page = "Receiver"
  THEN [call EXCEPT !.callbackCalled = TRUE, !.timer = FALSE, !.listening = FALSE,
                    !.callbacks = Append(@, exists)]
  ELSE [call EXCEPT !.listening = FALSE, !.callbacks = Append(@, exists)]

\* The timer's function invokes the callback: always in the Sender, in the
\* Receiver when the flag is not set.
TimeoutInvokes(call) == call.page = "Sender" \/ ~call.callbackCalled

\* The timer's function.
OnTimeout(call) ==
  IF TimeoutInvokes(call)
  THEN [call EXCEPT !.timer = FALSE, !.listening = FALSE,
                    !.callbackCalled = (call.page = "Receiver"),
                    !.callbacks = Append(@, JsFalse)]
  ELSE [call EXCEPT !.timer = FALSE]

\* Mutant of Callback: a Receiver that sets the connection up when its last
\* retry found no session.
CallbackJoinsUnverified(att, call, exists) ==
  IF att.page = "Receiver"
  THEN IF ~Truthy(exists) /\ call.retryCount < maxRetries
       THEN [att EXCEPT !.retryTimers = @ \cup {call.retryCount + 1}]
       ELSE IF att.isConnecting
            THEN att
            ELSE [att EXCEPT !.isConnecting = TRUE, !.joins = @ + 1,
                             !.connectionState = "waiting"]
  ELSE IF Truthy(exists)
       THEN [att EXCEPT !.location = "leaving"]
       ELSE [att EXCEPT !.alerts = @ + 1]

\* The callback the page passed to verifySession.  The Receiver's is the one
\* of attemptConnection: retry in three seconds, give up, or set the
\* connection up; the Sender's is the one of joinReceiveSession: go to the
\* receiver URL or alert.
Callback(att, call, exists) ==
  IF att.page = "Receiver"
  THEN IF ~Truthy(exists)
       THEN IF call.retryCount < maxRetries
            THEN [att EXCEPT !.retryTimers = @ \cup {call.retryCount + 1}]
            ELSE [att EXCEPT !.connectionState = "error"]
       ELSE IF att.isConnecting
            THEN att
            ELSE [att EXCEPT !.isConnecting = TRUE, !.joins = @ + 1,
                             !.connectionState = "waiting"]
  ELSE IF Truthy(exists)
       THEN [att EXCEPT !.location = "leaving"]
       ELSE [att EXCEPT !.alerts = @ + 1]

\* The page as it is loaded; the Receiver's effect has attemptConnection() due.
Loaded(page) ==
  [page |-> page, isConnecting |-> FALSE, connectionState |-> "connecting",
   retryTimers |-> IF page = "Receiver" THEN {0} ELSE {}, joins |-> 0,
   location |-> "here", alerts |-> 0]

VerifyInit ==
  /\ Listening
  /\ NoTransfer
  /\ calls = <<>>
  /\ requests = <<>>
  /\ replies = <<>>
  /\ \E page \in {"Sender", "Receiver"} : attempt = Loaded(page)

\* verifySession: emit verify-session, register the listener, start the timer.
verifySession(page, sessionId, retryCount) ==
  /\ calls' = Append(calls, NewCall(page, sessionId, retryCount))
  /\ requests' = Append(requests, sessionId)

\* attemptConnection(retryCount), from the effect or from a retry timer.
AttemptConnection(retryCount) ==
  /\ attempt.page = "Receiver"
  /\ retryCount \in attempt.retryTimers
  /\ attempt' = [attempt EXCEPT !.retryTimers = @ \ {retryCount}]
  /\ IF attempt.isConnecting
     THEN UNCHANGED <<calls, requests>>
     ELSE verifySession("Receiver", PageSession, retryCount)
  /\ UNCHANGED replies

\* joinReceiveSession on the Sender's page with an identifier typed in.
JoinReceiveSession(sessionId) ==
  /\ attempt.page = "Sender"
  /\ attempt.location = "here"
  /\ Len(calls) < MaxCalls
  /\ verifySession("Sender", sessionId, 0)
  /\ UNCHANGED <<attempt, replies>>

\* The server handles the verify-session event at the head of the requests
\* and its session-verified event is on its way to the page.
ServerVerifies ==
  /\ requests # <<>>
  /\ sockets[PageSocket] = "connected"
  /\ LET sessionId == Head(requests)
         answer == [exists |-> Exists(sessions, sessionId), sessionId |-> sessionId]
     IN /\ emitted' = <<Emit({PageSocket}, "session-verified", answer)>>
        /\ last' = [ev |-> "verify-session", id |-> PageSocket, session |-> sessionId,
                    arg |-> JsUndefined]
        /\ replies' = Append(replies, answer)
  /\ requests' = Tail(requests)
  /\ UNCHANGED <<sockets, sessions, rooms, nJoins, emptied, step, calls, attempt>>

\* A session-verified event goes to the listeners on the socket, in the
\* order they were put there; each that handles it invokes its callback.
RECURSIVE Dispatch(_, _, _, _)
Dispatch(cs, i, msg, att) ==
  IF i > Len(cs) THEN [calls |-> cs, attempt |-> att]
  ELSE IF Handles(cs[i], msg)
       THEN Dispatch([cs EXCEPT ![i] = OnSessionVerified(cs[i], msg.exists)], i + 1, msg,
                     Callback(att, cs[i], msg.exists))
       ELSE Dispatch(cs, i + 1, msg, att)

SessionVerified ==
  /\ replies # <<>>
  /\ attempt.location # "gone"
  /\ LET done == Dispatch(calls, 1, Head(replies), attempt)
     IN /\ calls' = done.calls
        /\ attempt' = done.attempt
  /\ replies' = Tail(replies)
  /\ UNCHANGED requests

\* The timer of a call fires.
Timeout(i) ==
  /\ calls[i].timer
  /\ calls' = [calls EXCEPT ![i] = OnTimeout(calls[i])]
  /\ attempt' = IF TimeoutInvokes(calls[i])
                THEN Callback(attempt, calls[i], JsFalse)
                ELSE attempt
  /\ UNCHANGED <<requests, replies>>

\* The navigation that window.location.href = receiverUrl began ends the
\* page, and with it its timers and listeners.
PageUnloads ==
  /\ attempt.location = "leaving"
  /\ attempt' = [attempt EXCEPT !.location = "gone"]
  /\ calls' = [i \in 1..Len(calls) |->
                 [calls[i] EXCEPT !.timer = FALSE, !.listening = FALSE]]
  /\ UNCHANGED <<requests, replies>>

\* The page's socket and the socket of the sender that creates the sessions.
VerifyNext ==
  \/ \E id \in {PageSocket, "c2"} : Connection(id) /\ UNCHANGED <<ovars, tvars, cvars>>
  \/ \E session \in SessionIds, now \in Clock :
       Join("c2", session, SenderInfo, now) /\ UNCHANGED <<ovars, tvars, cvars>>
  \/ \E id \in {PageSocket, "c2"} : Disconnect(id) /\ UNCHANGED <<ovars, tvars, cvars>>
  \/ \E retryCount \in 0..maxRetries + 1 :
       AttemptConnection(retryCount) /\ UNCHANGED <<svars, ovars, tvars>>
  \/ \E sessionId \in TypedSessions :
       JoinReceiveSession(sessionId) /\ UNCHANGED <<svars, ovars, tvars>>
  \/ ServerVerifies /\ UNCHANGED <<ovars, tvars>>
  \/ SessionVerified /\ UNCHANGED <<svars, ovars, tvars>>
  \/ \E i \in 1..Len(calls) : Timeout(i) /\ UNCHANGED <<svars, ovars, tvars>>
  \/ PageUnloads /\ UNCHANGED <<svars, ovars, tvars>>

VerifySpec == VerifyInit /\ [][VerifyNext]_vars

\* ================================================================== claims
\* The emit calls of the last handler that reach socket c.
Reaching(c) == {i \in 1..Len(emitted) : c \in emitted[i].to}

\* The emit calls of the last handler that carry event ev.
Carrying(ev) == {i \in 1..Len(emitted) : emitted[i].ev = ev}

\* The positions of the entries of socket id in a devices array.
EntriesOf(devices, id) == {i \in 1..Len(devices) : devices[i].id = id}

\* C1: after every handled event, no entry of the session store has an empty
\* device list.
C1_NoEmptySession == \A i \in 1..Len(sessions) : Len(sessions[i].devices) > 0

\* A disconnect removed the last device of one session while another session
\* still has devices.
C1_Witness ==
  /\ last.ev = "disconnect"
  /\ ScenarioSession \in emptied
  /\ ~HasSession(sessions, ScenarioSession)
  /\ HasSession(sessions, "AB12CD")

\* C2: when a connection that already has an entry in a session joins that
\* session again (as it does when it joins twice in a row), the device list
\* afterwards has exactly one entry for it, at the position the entry had
\* before, holding the fields of the second join's deviceInfo; no other entry
\* moves.
C2_RejoinReplacesInPlace ==
  [][last'.ev = "join" =>
       LET id == last'.id
           deviceInfo == last'.arg
           before == DevicesOf(sessions, last'.session)
           after == DevicesOf(sessions', last'.session)
       IN \A k \in EntriesOf(before, id) :
            /\ EntriesOf(after, id) = {k}
            /\ Len(after) = Len(before)
            /\ \A j \in 1..Len(before) : j # k => after[j] = before[j]
            /\ \A f \in DOMAIN deviceInfo.fields : after[k][f] = deviceInfo.fields[f]
            /\ ~deviceInfo.defined => after[k].type = "unknown"]_vars

\* A connection that is not the last entry of a two-device session joined the
\* session again with other metadata than it had.
C2_Witness ==
  /\ last.ev = "join"
  /\ Len(emitted) = 1
  /\ LET devices == DevicesOf(sessions, last.session)
     IN /\ Len(devices) = 2
        /\ devices[1].id = last.id
        /\ devices[1].type = "sender"
        /\ last.arg = SenderInfo
        /\ devices[2].type = "unknown"

\* C3: when the disconnect of a session's last device has been handled, the
\* session has no entry in the store, and a verify-session for that identifier
\* handled before any further join of it is answered with exists: false.
C3_VerifyAfterLastLeft ==
  /\ \A s \in emptied : ~HasSession(sessions, s)
  /\ (last.ev = "verify-session" /\ last.session \in emptied)
       => /\ Carrying("session-verified") # {}
          /\ \A i \in Carrying("session-verified") : emitted[i].data.exists = JsFalse

\* C3, the part about the store alone: a session whose last device's disconnect
\* was handled has no entry until it is joined again.
C3_EntryDeleted == \A s \in emptied : ~HasSession(sessions, s)

\* C4: no device-joined reaches the connection whose join produced it, and no
\* device-left reaches the connection whose disconnect produced it.
C4_NeverToCausingConnection ==
  /\ \A i \in Carrying("device-joined") : last.ev = "join" /\ last.id \notin emitted[i].to
  /\ \A i \in Carrying("device-left") : last.ev = "disconnect" /\ last.id \notin emitted[i].to

\* A disconnect was handled whose device-left reached two remaining members.
C4_Witness ==
  /\ last.ev = "disconnect"
  /\ \E i \in Carrying("device-left") : Cardinality(emitted[i].to) = 2

\* C5: every session-info is the reply to a join and reaches the joining
\* connection alone; its devices are the session's current list, in which the
\* joining device occurs exactly once, and totalDevices is the list's length.
C5_SessionInfoToJoinerOnly ==
  /\ last.ev = "join" => Cardinality(Carrying("session-info")) = 1
  /\ \A i \in Carrying("session-info") :
       /\ last.ev = "join"
       /\ emitted[i].to = {last.id}
       /\ emitted[i].data.devices = DevicesOf(sessions, last.session)
       /\ Cardinality(EntriesOf(emitted[i].data.devices, last.id)) = 1
       /\ emitted[i].data.totalDevices = Len(emitted[i].data.devices)

\* The third device joined a session and was told of all three.
C5_Witness ==
  /\ last.ev = "join"
  /\ \E i \in Carrying("session-info") :
       /\ emitted[i].data.totalDevices = 3
       /\ IdsOf(emitted[i].data.devices) = Conns

\* C6: on a fresh server, X joins s and gets session-info with one device and
\* count 1; Y joins s, X gets device-joined with Y's info and count 2 and Y gets
\* session-info with two devices and count 2; X disconnects, Y gets device-left
\* naming X with count 1 and s still exists; Y disconnects and s is deleted.
C6_Scenario ==
  /\ (step = 1 /\ last.ev = "join") =>
       /\ Cardinality(Reaching(X)) = 1
       /\ \A i \in Reaching(X) :
            /\ emitted[i].ev = "session-info"
            /\ Len(emitted[i].data.devices) = 1
            /\ emitted[i].data.totalDevices = 1
  /\ (step = 2 /\ last.ev = "join") =>
       /\ Cardinality(Reaching(X)) = 1
       /\ \A i \in Reaching(X) :
            /\ emitted[i].ev = "device-joined"
            /\ emitted[i].data.device.id = Y
            /\ \A f \in DOMAIN last.arg.fields :
                 emitted[i].data.device[f] = last.arg.fields[f]
            /\ emitted[i].data.totalDevices = 2
       /\ Cardinality(Reaching(Y)) = 1
       /\ \A i \in Reaching(Y) :
            /\ emitted[i].ev = "session-info"
            /\ Len(emitted[i].data.devices) = 2
            /\ emitted[i].data.totalDevices = 2
  /\ (step = 3 /\ last.ev = "disconnect") =>
       /\ Cardinality(Reaching(Y)) = 1
       /\ \A i \in Reaching(Y) :
            /\ emitted[i].ev = "device-left"
            /\ emitted[i].data.socketId = X
            /\ emitted[i].data.totalDevices = 1
       /\ IdsOf(DevicesOf(sessions, ScenarioSession)) = {Y}
  /\ step = 3 => HasSession(sessions, ScenarioSession)
  /\ step = 4 => ~HasSession(sessions, ScenarioSession)

\* The scenario ran to its end: Y's disconnect was handled last.
C6_Witness == step = 4 /\ last.ev = "disconnect" /\ last.id = Y

\* The negotiation events.
RelayKinds == {"offer", "answer", "candidate"}

\* The transfer events.
TransferKinds == {"transfer-start", "transfer-progress", "transfer-complete"}

\* The members of the session the last event names, but for its sender.
OtherMembers == IdsOf(DevicesOf(sessions, last.session)) \ {last.id}

\* C7: an offer, answer or candidate naming session s is forwarded, under its
\* own event name and with the payload it came with, exactly once to every
\* member of s but the sender, and never to the sender.
C7_RelayToOthers ==
  last.ev \in RelayKinds =>
    /\ \A m \in OtherMembers :
         /\ Cardinality(Reaching(m)) = 1
         /\ \A i \in Reaching(m) :
              /\ emitted[i].ev = last.ev
              /\ DOMAIN emitted[i].data = {last.ev}
              /\ emitted[i].data[last.ev] = last.arg
    /\ Reaching(last.id) = {}

\* A member of a three-device session sent a candidate and both others got it.
C7_Witness ==
  /\ last.ev = "candidate"
  /\ last.id \in IdsOf(DevicesOf(sessions, last.session))
  /\ Cardinality(OtherMembers) = 2
  /\ \A m \in OtherMembers : Reaching(m) # {}

\* C8: a transfer-start, transfer-progress or transfer-complete naming session
\* s reaches every member of s but the sender, and never the sender.
C8_TransferToOthers ==
  last.ev \in TransferKinds =>
    /\ \A m \in OtherMembers : \E i \in Reaching(m) : emitted[i].ev = last.ev
    /\ Reaching(last.id) = {}

\* A member of a three-device session announced transfer-complete and both
\* others got it.
C8_Witness ==
  /\ last.ev = "transfer-complete"
  /\ last.id \in IdsOf(DevicesOf(sessions, last.session))
  /\ Cardinality(OtherMembers) = 2
  /\ \A m \in OtherMembers : Reaching(m) # {}

\* C9: verify-session for id is answered with exactly one session-verified,
\* to the requesting connection alone, echoing id, with exists the boolean
\* true when the store has a session id with at least one device and the
\* boolean false otherwise.
C9_VerifyAnswer ==
  last.ev = "verify-session" =>
    /\ Len(emitted) = 1
    /\ emitted[1].ev = "session-verified"
    /\ emitted[1].to = {last.id}
    /\ emitted[1].data.sessionId = last.session
    /\ emitted[1].data.exists =
         (IF \E i \in 1..Len(sessions) :
               sessions[i].id = last.session /\ Len(sessions[i].devices) >= 1
          THEN JsTrue
          ELSE JsFalse)

\* C10: session identifiers are case-insensitive at the server: devices that
\* join identifiers differing only in letter case are in one session, and
\* verify-session with an identifier that differs only in letter case from a
\* non-empty session's is answered with exists true.
C10_CaseInsensitive ==
  /\ \A i, j \in 1..Len(sessions) :
       ToLowerCase(sessions[i].id) = ToLowerCase(sessions[j].id) => i = j
  /\ (/\ last.ev = "verify-session"
      /\ \E i \in 1..Len(sessions) :
           /\ ToLowerCase(sessions[i].id) = ToLowerCase(last.session)
           /\ Len(sessions[i].devices) >= 1)
       => \A i \in Carrying("session-verified") : emitted[i].data.exists = JsTrue

\* The sessions of a store whose device list has an entry of connection c.
SessionsHolding(store, c) ==
  {i \in 1..Len(store) : c \in IdsOf(store[i].devices)}

\* C11: when the disconnect of connection c is handled, the device-left
\* messages naming c reach exactly the remaining members of the sessions that
\* had c before the disconnect, each with the session's new member count; a
\* connection that shared no session with c gets no device-left for c.
C11_DeviceLeftToFormerCoMembers ==
  [][last'.ev = "disconnect" =>
       LET c == last'.id
           left == {j \in 1..Len(emitted') :
                      emitted'[j].ev = "device-left" /\ emitted'[j].data.socketId = c}
       IN \A m \in Conns \ {c} :
            LET shared == {i \in SessionsHolding(sessions, c) :
                             m \in IdsOf(sessions[i].devices)}
            IN {emitted'[j].data.totalDevices : j \in {k \in left : m \in emitted'[k].to}}
                 = {Cardinality(IdsOf(sessions[i].devices) \ {c}) : i \in shared}]_vars

\* C12: every live connection has a device entry in at most one session.
C12_AtMostOneSession ==
  \A c \in Conns :
    sockets[c] = "connected" => Cardinality(SessionsHolding(sessions, c)) <= 1

\* The events that query or forward and are not to touch the store.
ReadOnlyKinds == {"verify-session"} \cup RelayKinds \cup TransferKinds

\* C18: a session entry is created by a join alone: handling verify-session,
\* offer, answer, candidate, transfer-start, transfer-progress or
\* transfer-complete leaves the store (its sessions and every device list) as
\* it was, also when the event names an identifier that has no session.
C18_OnlyJoinCreates ==
  [][/\ last'.ev \in ReadOnlyKinds => sessions' = sessions
     /\ (\E s \in RoomNames : ~HasSession(sessions, s) /\ HasSession(sessions', s))
          => last'.ev = "join"]_vars

\* A verify-session naming an identifier without a session was handled while
\* the store held another session.
C18_Witness ==
  /\ last.ev = "verify-session"
  /\ ~HasSession(sessions, last.session)
  /\ Len(sessions) > 0

\* The fields a deviceInfo lacks.
MissingFields(deviceInfo) ==
  IF deviceInfo.defined THEN InfoFields \ DOMAIN deviceInfo.fields ELSE InfoFields

\* C19: a join whose deviceInfo is absent or lacks fields is handled like any
\* other: the connection's device entry has the default of every missing field
\* (type "unknown" among them) and the client's value of every field sent,
\* session-info reaches the joining connection, and, when the connection was
\* not in the session before, device-joined with that entry reaches every
\* other member.
C19_JoinDefaults ==
  [][(last'.ev = "join" /\ MissingFields(last'.arg) # {}) =>
       LET id == last'.id
           before == DevicesOf(sessions, last'.session)
           after == DevicesOf(sessions', last'.session)
       IN /\ Cardinality(EntriesOf(after, id)) = 1
          /\ \A k \in EntriesOf(after, id), now \in Clock :
               /\ \A f \in MissingFields(last'.arg) :
                    after[k][f] = MakeDeviceDefaults(id, NoInfo, now)[f]
               /\ \A f \in InfoFields \ MissingFields(last'.arg) :
                    after[k][f] = last'.arg.fields[f]
               /\ \A m \in IdsOf(before) \ {id} :
                    id \notin IdsOf(before) =>
                      \E j \in 1..Len(emitted') :
                        /\ emitted'[j].ev = "device-joined"
                        /\ m \in emitted'[j].to
                        /\ emitted'[j].data.device = after[k]
          /\ \E j \in 1..Len(emitted') :
               /\ emitted'[j].ev = "session-info"
               /\ emitted'[j].to = {id}
               /\ emitted'[j].data.devices = after]_vars

\* A connection joined the session of a device that sent no deviceInfo, itself
\* sending a deviceInfo with its deviceName alone, and the first got device-joined.
C19_Witness ==
  /\ last.ev = "join"
  /\ last.arg = OnlyField("deviceName")
  /\ Len(emitted) = 2
  /\ emitted[1].ev = "device-joined"
  /\ emitted[1].data.device.type = "unknown"
  /\ emitted[1].data.device.deviceName = "Desktop Computer"
  /\ LET devices == DevicesOf(sessions, last.session)
     IN /\ Len(devices) = 2
        /\ devices[1].deviceName = "Unknown Device"

\* Each client handles the notifications of the membership mutations in the
\* order the server applied the mutations.
InAppliedOrder ==
  \A c \in Conns : \A i, j \in 1..Len(seen[c]) :
    i < j => seen[c][i].n <= seen[c][j].n

\* C17: any two members that both handle the notifications of two membership
\* mutations handle them in the same relative order, the order in which the
\* server applied the mutations; and a client handles a device-left for a
\* device only after a device-joined or session-info that named the device.
C17_SameOrderAndIntroduced ==
  /\ \A c, d \in Conns : \A i, j \in 1..Len(seen[c]) : \A k, l \in 1..Len(seen[d]) :
       (seen[c][i].n = seen[d][k].n /\ seen[c][j].n = seen[d][l].n /\ i < j)
         => (k <= l /\ seen[c][i].n <= seen[c][j].n)
  /\ \A c \in Conns : \A i \in 1..Len(seen[c]) :
       seen[c][i].ev = "device-left" =>
         \E j \in 1..(i - 1) :
           /\ seen[c][j].ev \in {"device-joined", "session-info"}
           /\ seen[c][i].ids \subseteq seen[c][j].ids

\* ------------------------------------------------ claims about the transfer
\* The binary messages the sender has put on the data channel, in order.
ChunksSent == SelectSeq(dc.sent, LAMBDA m : IsChunk(m))

\* The sender has put the end marker on the data channel.
EOFSent == \E i \in 1..Len(dc.sent) : IsEOF(dc.sent[i])

\* The number of chunks of size chunkSize that cover totalSize bytes.
ChunkCount(totalSize, chunkSize) == (totalSize + chunkSize - 1) \div chunkSize

\* The artifact of every end marker handled is the sender's file, byte for byte.
RoundTrip ==
  \A i \in 1..Len(receiver.downloads) : receiver.downloads[i].blob = sender.file.bytes

NonDecreasing(q) == \A i, j \in 1..Len(q) : i < j => q[i] <= q[j]

\* The progress values of the transfer-progress events the sender emitted.
ProgressEmitted ==
  LET events == SelectSeq(sender.socketLog, LAMBDA e : e.ev = "transfer-progress")
  IN [i \in 1..Len(events) |-> events[i].progress]

\* C14: across a transfer, the progress percentages the sender reports, on its
\* page and through transfer-progress, never decrease, and the last one
\* reported when the transfer completes is exactly 100.
C14_ProgressMonotone ==
  /\ NonDecreasing(sender.progressLog)
  /\ NonDecreasing(ProgressEmitted)
  /\ EOFSent => sender.progressLog[Len(sender.progressLog)] = 100

\* The transfer of the scenario: 1,000,000 bytes in chunks of 16,384.
MillionByteTransfer == TotalSize = 1000000 /\ sender.chunkSize = ChunkSizeDesktop

\* C15: a 1,000,000-byte file sent with a 16,384-byte chunk size produces 61
\* full chunks and one final chunk of 6,784 bytes, followed by the end marker,
\* and the file the receiver rebuilds has 1,000,000 bytes.
C15_MillionBytes ==
  MillionByteTransfer =>
    /\ EOFSent =>
         /\ Len(ChunksSent) = 62
         /\ \A i \in 1..61 : ChunksSent[i].size = 16384
         /\ ChunksSent[62].size = 6784
         /\ IsEOF(dc.sent[Len(dc.sent)])
    /\ \A i \in 1..Len(receiver.downloads) :
         /\ ByteLength(receiver.downloads[i].blob) = 1000000
         /\ receiver.receivedSize = 1000000

\* C15 as the code has it: 61 full chunks and one final chunk of 576 bytes
\* (1,000,000 - 61 * 16,384), followed by the end marker; the file the
\* receiver rebuilds has 1,000,000 bytes.
C15_MillionBytesAmended ==
  MillionByteTransfer =>
    /\ EOFSent =>
         /\ Len(ChunksSent) = 62
         /\ \A i \in 1..61 : ChunksSent[i].size = 16384
         /\ ChunksSent[62].size = 576
         /\ IsEOF(dc.sent[Len(dc.sent)])
    /\ \A i \in 1..Len(receiver.downloads) :
         /\ ByteLength(receiver.downloads[i].blob) = 1000000
         /\ receiver.receivedSize = 1000000

\* The receiver handled the end marker of the 1,000,000-byte transfer.
C15_Witness ==
  /\ MillionByteTransfer
  /\ Len(receiver.downloads) = 1
  /\ Len(receiver.chunks) = 62

\* The messages on the data channel begin with the one file name message, the
\* end marker is the last message, and all between are binary chunks.
FramedInOrder ==
  \A i \in 1..Len(dc.sent) :
    /\ IsFilename(dc.sent[i]) <=> i = 1
    /\ IsEOF(dc.sent[i]) => i = Len(dc.sent)
    /\ IsFilename(dc.sent[i]) \/ IsEOF(dc.sent[i]) \/ IsChunk(dc.sent[i])

Sending == sender.isTransferring /\ SendChunkDue

\* C20: when the data channel fails or closes while the sender is sending, the
\* sender is in the error state at once: its transfer flag is cleared and no
\* call of sendChunk is scheduled; and once the channel is closed the sender
\* puts no further chunk or end marker on it, emits no transfer-complete and
\* makes no further attempt.
C20_ChannelFailureStopsSender ==
  [][/\ (dc.readyState = "open" /\ dc'.readyState = "closed" /\ Sending)
          => (~sender'.isTransferring /\ sender'.pc = "stopped")
     /\ (dc.readyState = "closed" /\ sender.pc # "idle")
          => /\ dc'.sent = dc.sent
             /\ sender'.socketLog = sender.socketLog
             /\ sender'.offset = sender.offset]_vars

\* ----------------------------------------------- claims about the server, 2
\* C21: the disconnect cleanup is idempotent: handling the disconnect of a
\* connection a second time leaves the session store as the first left it and
\* emits no further device-left.
C21_CleanupIdempotent ==
  [][(last'.ev = "disconnect" /\ sockets[last'.id] = "disconnected") =>
       /\ sessions' = sessions
       /\ emitted' = <<>>]_vars

\* C21, the part about the store alone: the second handling leaves it as it was.
C21_StoreUnchanged ==
  [][(last'.ev = "disconnect" /\ sockets[last'.id] = "disconnected") =>
       sessions' = sessions]_vars

\* C22: a join emits device-joined to the other members of the session exactly
\* when the joining connection had no device entry in the session before, and
\* emits it before the session-info reply; a join by a connection that is in
\* the session already emits no device-joined and still emits session-info to
\* the joiner.
C22_DeviceJoinedIffNew ==
  [][last'.ev = "join" =>
       LET id == last'.id
           before == IdsOf(DevicesOf(sessions, last'.session))
           joined == {j \in 1..Len(emitted') : emitted'[j].ev = "device-joined"}
           info == {j \in 1..Len(emitted') : emitted'[j].ev = "session-info"}
       IN /\ id \in before => joined = {}
          /\ id \notin before =>
               /\ Cardinality(joined) = 1
               /\ \A j \in joined : emitted'[j].to = before
          /\ Cardinality(info) = 1
          /\ \A j \in info : emitted'[j].to = {id}
          /\ \A i \in joined, j \in info : i < j]_vars

\* A third connection joined a session of two: both got device-joined, and
\* the session-info reply came after it.
C22_Witness ==
  /\ last.ev = "join"
  /\ Len(emitted) = 2
  /\ emitted[1].ev = "device-joined"
  /\ Cardinality(emitted[1].to) = 2
  /\ emitted[2].ev = "session-info"

\* The connections with a device entry in session s of a store and in no other.
MembersOnlyOf(store, s) ==
  {c \in IdsOf(DevicesOf(store, s)) :
     \A i \in 1..Len(store) : c \in IdsOf(store[i].devices) => store[i].id = s}

\* The sessions an event concerns: the one a join, relay or transfer event
\* names, and for a disconnect the sessions that hold the connection.
Concerned ==
  IF last'.ev = "disconnect"
  THEN {sessions[i].id : i \in SessionsHolding(sessions, last'.id)}
  ELSE {last'.session}

\* The last event is an operation on sessions: a disconnect, or a join, relay
\* or transfer event that names a session identifier.
OnSessions ==
  \/ last'.ev = "disconnect"
  \/ /\ last'.ev \in {"join"} \cup RelayKinds \cup TransferKinds
     /\ last'.session \in SessionIds

\* C27: an operation on one session does not affect another: a join, relay,
\* transfer event or disconnect concerning session A leaves the device list of
\* every other session B as it was and emits nothing to the connections that
\* are members of B alone.
C27_SessionsIsolated ==
  [][OnSessions =>
       \A B \in SessionIds \ Concerned :
         /\ DevicesOf(sessions', B) = DevicesOf(sessions, B)
         /\ \A c \in MembersOnlyOf(sessions, B) \ {last'.id} :
              \A j \in 1..Len(emitted') : c \notin emitted'[j].to]_vars

\* C27, the part about the store alone: no operation changes the device list
\* of a session it does not concern.
C27_OtherListsUnchanged ==
  [][OnSessions =>
       \A B \in SessionIds \ Concerned :
         DevicesOf(sessions', B) = DevicesOf(sessions, B)]_vars

\* ---- claims about the transfer, 2
\* A call of sendChunk with bytes left to send is due and the channel's
\* buffered amount is above 1 MiB.
AboveWatermark ==
  /\ sender.pc = "timer"
  /\ sender.offset < TotalSize
  /\ BufferedAmount(dc.queue) > 1048576

\* The step puts a binary chunk on the data channel.
ChunkSentNow ==
  /\ Len(dc'.sent) > Len(dc.sent)
  /\ IsChunk(dc'.sent[Len(dc'.sent)])

\* C23: a sender step that finds the channel's buffered amount above the
\* 1 MiB watermark sends nothing, leaves the offset and the reported progress
\* as they were and has the next call scheduled; a chunk is sent only in a
\* step where the buffered amount is at or below the watermark.
C23_BackPressure ==
  [][/\ AboveWatermark =>
          /\ dc'.sent = dc.sent
          /\ sender'.offset = sender.offset
          /\ sender'.progressLog = sender.progressLog
          /\ sender'.socketLog = sender.socketLog
          /\ sender'.pc = "timer"
     /\ ChunkSentNow => BufferedAmount(dc.queue \o Preamble) <= 1048576]_vars

\* The sender waits above the watermark with part of the file sent, and the
\* receiver has taken nothing off the channel yet.
C23_Witness ==
  /\ AboveWatermark
  /\ sender.offset > 1048576
  /\ Len(ChunksSent) = 65
  /\ receiver.receivedSize = 0

\* The number of messages of a sequence that satisfy a test.
CountOf(q, Test(_)) == Len(SelectSeq(q, Test))

\* The sum of the sizes of the first n chunks sent.
RECURSIVE SizeOfChunks(_)
SizeOfChunks(n) == IF n = 0 THEN 0 ELSE SizeOfChunks(n - 1) + ChunksSent[n].size

\* The i-th chunk sent is the bytes of the file from (i-1) * chunkSize up to
\* i * chunkSize or the end of the file.
ChunksInOffsetOrder ==
  \A i \in 1..Len(ChunksSent) :
    ChunksSent[i].data = Slice(sender.file.bytes, (i - 1) * sender.chunkSize,
                               i * sender.chunkSize)

\* The transfer-complete events the sender emitted.
CompleteEmitted == CountOf(sender.socketLog, LAMBDA e : e.ev = "transfer-complete")

\* C24: in a transfer that meets no channel error the sender sends EOF
\* exactly once, only after chunks that cover every byte of [0, totalSize) in
\* increasing offset order, no byte twice, and it emits transfer-complete
\* exactly once, with the EOF; after EOF no chunk is sent.
C24_EOFOnceAfterAllChunks ==
  /\ CountOf(dc.sent, IsEOF) <= 1
  /\ ChunksInOffsetOrder
  /\ EOFSent => /\ SizeOfChunks(Len(ChunksSent)) = TotalSize
                /\ IsEOF(dc.sent[Len(dc.sent)])
  /\ CompleteEmitted = CountOf(dc.sent, IsEOF)
  /\ (sender.pc = "stopped" /\ dc.readyState = "open") => CountOf(dc.sent, IsEOF) = 1

\* A four-byte file went out in chunks of three and one byte, then the EOF
\* and the transfer-complete, on a channel that is still open.
C24_Witness ==
  /\ TotalSize = 4
  /\ sender.chunkSize = 3
  /\ sender.pc = "stopped"
  /\ dc.readyState = "open"
  /\ Len(ChunksSent) = 2
  /\ ChunksSent[2].size = 1
  /\ CompleteEmitted = 1

\* C25: if the data channel stays open, and with the receiver taking the
\* messages off it the buffered amount falls to or below the watermark again
\* and again, every transfer that was started reaches the EOF, for every
\* total size.
C25_EventuallyDone == [](dc.readyState = "open") => <>EOFSent

\* The 1,100,000-byte file, which makes the sender wait at the watermark, was
\* sent to its EOF on an open channel and taken whole by the receiver.
C25_Witness ==
  /\ TotalSize = 1100000
  /\ EOFSent
  /\ dc.readyState = "open"
  /\ dc.queue = <<>>
  /\ receiver.receivedSize = 1100000

\* C26: on the receiver each binary message is appended to chunks and adds
\* its byte length to receivedSize; on EOF the file downloaded is the
\* concatenation of chunks in the order they came, its name is the one the
\* file name message gave, 'received_file' when none came, and the state
\* becomes completed with progress 100.
C26_ReceiverAssembles ==
  /\ receiver.originalFileName = "received_file"
  /\ [][receiver' # receiver =>
          LET m == Head(dc.queue)
          IN /\ IsChunk(m) =>
                  /\ receiver'.chunks = Append(receiver.chunks, m.data)
                  /\ receiver'.receivedSize = receiver.receivedSize + ByteLength(m.data)
                  /\ receiver'.originalFileName = receiver.originalFileName
                  /\ receiver'.downloads = receiver.downloads
             /\ IsFilename(m) =>
                  /\ receiver'.originalFileName = m.json.name
                  /\ receiver'.chunks = receiver.chunks
                  /\ receiver'.receivedSize = receiver.receivedSize
                  /\ receiver'.downloads = receiver.downloads
             /\ IsEOF(m) =>
                  /\ receiver'.downloads =
                       Append(receiver.downloads,
                              [download |-> receiver.originalFileName,
                               blob |-> Blob(receiver.chunks)])
                  /\ receiver'.connectionState = "completed"
                  /\ receiver'.downloadProgress = 100
                  /\ receiver'.chunks = receiver.chunks]_vars

\* The file name message was lost: two chunks and the EOF came, and the file
\* of the two chunks was downloaded as 'received_file'.
C26_Witness ==
  /\ Len(receiver.downloads) = 1
  /\ receiver.downloads[1].download = "received_file"
  /\ receiver.downloads[1].blob = Encode(<<255, 0, 0, 255>>)
  /\ Len(receiver.chunks) = 2
  /\ receiver.receivedSize = 4
  /\ receiver.connectionState = "completed"
  /\ receiver.downloadProgress = 100

\* ---- claims about the server, 3
\* The step is one by which a page leaves a session while its socket stays
\* connected: a resetSession of the page, or its join of another session.
LeavesNow(c, s) ==
  /\ last'.id = c
  /\ c \in IdsOf(DevicesOf(sessions, s))
  /\ \/ last'.ev = "resetSession" /\ last'.session = s
     \/ last'.ev = "join" /\ last'.session # s

\* C28: a device that leaves a session while its connection stays open (its
\* page resets the session or creates a new one) is removed from the old
\* session's device list: if it was the only member a verify-session of the
\* old identifier then answers that it does not exist, otherwise the
\* remaining members receive device-left.
C28_LeaveRemoves ==
  [][\A c \in Conns, s \in SessionIds :
       LeavesNow(c, s) =>
         /\ c \notin IdsOf(DevicesOf(sessions', s))
         /\ IF IdsOf(DevicesOf(sessions, s)) = {c}
            THEN Exists(sessions', s) # JsBool(TRUE)
            ELSE \E j \in 1..Len(emitted') :
                   /\ emitted'[j].ev = "device-left"
                   /\ IdsOf(DevicesOf(sessions, s)) \ {c} \subseteq emitted'[j].to]_vars

\* ---- claims about the pages
\* The callback of the call was invoked with true and then with false.
FalseAfterTrue(call) ==
  \E i, j \in 1..Len(call.callbacks) :
    i < j /\ call.callbacks[i] = JsTrue /\ call.callbacks[j] = JsFalse

\* The call is over: its timer fired or was cleared, or its listener handled
\* an answer, on a page that is still there.
Over(call) == (~call.timer \/ ~call.listening) /\ attempt.location # "gone"

\* The callback of the call was invoked once when the call is over, and never
\* more than once.
InvokedOnce(call) ==
  /\ Len(call.callbacks) <= 1
  /\ Over(call) => Len(call.callbacks) = 1
  /\ ~FalseAfterTrue(call)

\* C29: every call of verifySession invokes its callback exactly once under
\* every interleaving of the session-verified answer and the timer, never
\* twice and never with false after true, in the Sender and in the Receiver.
C29_CallbackOnce == \A i \in 1..Len(calls) : InvokedOnce(calls[i])

\* The Receiver's part of C29 alone.
C29_ReceiverCallbackOnce ==
  \A i \in 1..Len(calls) : calls[i].page = "Receiver" => InvokedOnce(calls[i])

\* Every call of the Receiver has had its one callback and no retry is due.
Quiet ==
  /\ attempt.retryTimers = {}
  /\ \A i \in 1..Len(calls) : Len(calls[i].callbacks) = 1

\* The callback of the call was invoked with a positive answer.
Positive(call) == \E k \in 1..Len(call.callbacks) : Truthy(call.callbacks[k])

\* C30: the Receiver's connection attempt ends: it makes at most 4
\* verify-session requests, the first and 3 retries, and ends in the state
\* waiting after a positive answer or in the state error after the fourth
\* negative or timed-out answer; it never retries after a positive answer.
C30_AttemptEnds ==
  attempt.page = "Receiver" =>
    /\ Len(calls) <= 4
    /\ attempt.connectionState \in {"connecting", "waiting", "error"}
    /\ attempt.connectionState = "waiting" <=> \E i \in 1..Len(calls) : Positive(calls[i])
    /\ attempt.connectionState = "error" <=>
         /\ Len(calls) = 4
         /\ \A i \in 1..4 : Len(calls[i].callbacks) = 1 /\ ~Positive(calls[i])
    /\ Quiet => attempt.connectionState \in {"waiting", "error"}
    /\ \A i \in 1..Len(calls) :
         Positive(calls[i]) => i = Len(calls) /\ attempt.retryTimers = {}
    /\ attempt.joins = (IF attempt.connectionState = "waiting" THEN 1 ELSE 0)

\* The attempt ended in error after four requests: the first was answered by
\* the server, the last timed out.
C30_Witness ==
  /\ attempt.page = "Receiver"
  /\ attempt.connectionState = "error"
  /\ Len(calls) = 4
  /\ calls[1].callbacks = <<JsUndefined>>
  /\ calls[4].callbacks = <<JsFalse>>
  /\ Quiet

\* ---- claims about the server, 4
\* C33: in every reachable state of the server no session's device list has
\* two entries with the same device identifier, whatever joins and
\* disconnects the connections make.
C33_NoDuplicateDevice ==
  \A k \in 1..Len(sessions) :
    \A i, j \in 1..Len(sessions[k].devices) :
      sessions[k].devices[i].id = sessions[k].devices[j].id => i = j

\* The second device of a two-device session joined it again, and the list
\* still has the two devices.
C33_Witness ==
  /\ last.ev = "join"
  /\ Len(emitted) = 1
  /\ LET devices == DevicesOf(sessions, last.session)
     IN /\ Len(devices) = 2
        /\ devices[2].id = last.id
        /\ devices[1].id # last.id

\* The session identifiers: those clients are given, and the keys of the store.
Identifiers == SessionIds \cup {sessions[k].id : k \in 1..Len(sessions)}

\* C32: in every reachable state of the server, for each session identifier
\* s, the live connections in the transport room s, which are the recipients
\* of a broadcast to s, are the device identifiers of the store's list for s,
\* and there are none when the store has no entry for s.
C32_RoomIsDeviceList ==
  \A s \in Identifiers : rooms[s] = IdsOf(DevicesOf(sessions, s))

\* C32 for the identifiers that are not the id of a socket.
C32_RoomIsDeviceListOfSessionIds ==
  \A s \in SessionIds : rooms[s] = IdsOf(DevicesOf(sessions, s))

\* C38: only a member of a session can cause messages to reach the session's
\* members: an offer, answer, candidate or transfer event sent by a
\* connection that has no device entry in the session it names is delivered
\* to no one.
C38_OnlyMembersReachMembers ==
  (/\ last.ev \in RelayKinds \cup TransferKinds
   /\ last.id \notin IdsOf(DevicesOf(sessions, last.session))) =>
     \A j \in 1..Len(emitted) : emitted[j].to = {}

\* ---- claims about the transfer, 3
\* C34: every progress value the sender reports on its page or emits in a
\* transfer-progress event is in 0..100, for every total size and chunk size,
\* those where the size is not a multiple of the chunk size too.
C34_ProgressInRange ==
  /\ \A i \in 1..Len(sender.progressLog) : sender.progressLog[i] \in 0..100
  /\ \A i \in 1..Len(ProgressEmitted) : ProgressEmitted[i] \in 0..100

\* What sendChunk leaves in thrown when dc.send(chunk) threw.
ChunkThrew == "sendChunk: setStatus is not defined"

\* C39: when sending a chunk throws, the sender stops the pacing loop, clears
\* its transfer-in-progress flag, and emits neither EOF nor transfer-complete
\* for that transfer.
C39_ChunkErrorStopsTransfer ==
  [][/\ (ChunkThrew \in sender'.thrown /\ ChunkThrew \notin sender.thrown) =>
          /\ sender'.pc = "stopped"
          /\ sender'.isTransferring = FALSE
          /\ dc'.sent = dc.sent
          /\ sender'.socketLog = sender.socketLog
     /\ ChunkThrew \in sender.thrown =>
          /\ sender'.pc = "stopped"
          /\ dc'.sent = dc.sent
          /\ sender'.socketLog = sender.socketLog]_vars


\* ---- claims about the transfer with its signaling events
\* C35: the receiver is in the completed state with progress 100 only once
\* the EOF marker has reached it on the data channel and the file was
\* assembled, whatever the order in which the relayed transfer-progress and
\* transfer-complete events and the messages of the channel are handled.
C35_CompletedOnlyAfterEOF ==
  (receiver.connectionState = "completed" /\ receiver.downloadProgress = 100) =>
     Len(receiver.downloads) >= 1

\* C37: a binary chunk is handled by the receiver only after the relayed
\* transfer-start of the file, so the progress of every chunk is computed
\* with a totalSize that is the size of the file and is not zero.
C37_TotalSizeKnownAtFirstChunk ==
  [][Len(receiver'.chunks) > Len(receiver.chunks) =>
       /\ handled >= 1
       /\ receiver.totalSize > 0
       /\ receiver.totalSize = ByteLength(sender.file.bytes)]_vars

\* A first chunk was received and its progress computed from the file size.
C37_Witness ==
  /\ Len(receiver.chunks) = 1
  /\ receiver.totalSize > 0
  /\ receiver.receivedSize > 0
  /\ receiver.downloadProgress = Percent(receiver.receivedSize, receiver.totalSize)


\* ---- claims about two transfers to one receiving page
\* C36: the file assembled at the second EOF is made of the chunks received
\* after the first EOF only, so it is the second file, and the byte count of
\* the second transfer starts from zero, so at its EOF it is the size of the
\* second file.
C36_SecondFileAlone ==
  Len(receiver.downloads) = 2 =>
     /\ receiver.downloads[2].blob = sender.file.bytes
     /\ receiver.receivedSize = ByteLength(sender.file.bytes)


\* ---- claims about the session check, 2
\* C31: the Receiver emits join only in the step that handles a
\* session-verified answer with exists true for its own session, and emits
\* it at most once per mount; the server gives that answer only while
\* another device is in the session, so the join never creates a session
\* that no other device had joined when it was verified.
C31_JoinOnlyVerified ==
  [][/\ (attempt.page = "Receiver" /\ attempt'.joins # attempt.joins) =>
          /\ attempt.joins = 0
          /\ attempt'.joins = 1
          /\ replies # <<>>
          /\ replies' = Tail(replies)
          /\ Head(replies).sessionId = PageSession
          /\ Head(replies).exists = JsTrue
     /\ (Len(replies') > Len(replies) /\ replies'[Len(replies')].exists = JsTrue) =>
          LET devices == DevicesOf(sessions, replies'[Len(replies')].sessionId)
          IN \E k \in 1..Len(devices) : devices[k].id # PageSocket]_vars

\* The Receiver joined after two negative answers and a positive one.
C31_Witness ==
  /\ attempt.page = "Receiver"
  /\ attempt.joins = 1
  /\ Len(calls) = 3
  /\ calls[1].callbacks = <<JsUndefined>>
  /\ calls[3].callbacks = <<JsTrue>>

====
